---- MODULE Spec2Model ----
(***************************************************************************)
(* Model of the sight-reading performance tracker and assessment engine:   *)
(*   PerformanceTracker (src/unnamed/part_007), assessPerformance          *)
(*   (src/lib/audio.ts), the notation helpers (src/lib/notation.ts),       *)
(*   RhythmQuantizer (src/unnamed/part_004), ArticulationDetector          *)
(*   (src/unnamed/part_005), Metronome (src/unnamed/part_006) and the      *)
(*   workflow of CalibrationModal (src/components/CalibrationModal.tsx).   *)
(*                                                                         *)
(* Conventions                                                             *)
(*   - a nullable value is a sequence of length 0 (null) or 1 (<<v>>);     *)
(*   - rms amplitudes are in thousandths (0.02 is 20, 0.015 is 15);        *)
(*   - elapsed time is in milliseconds, pitches are in whole hertz;        *)
(*   - spectral centroids are in units of 100 Hz, hnr in whole dB;         *)
(*   - onset sharpness is in hundredths (0.9 is 90);                       *)
(*   - percentages are in hundredths of a percent (100.00 is 10000).       *)
(***************************************************************************)
EXTENDS Integers, Sequences, FiniteSets

VARIABLES
    score,                  \* PerformanceTracker.score (read-only)
    tempo,                  \* PerformanceTracker.tempo
    transposeSemitones,     \* PerformanceTracker.transposeSemitones
    calibratedLatencyMs,    \* PerformanceTracker.calibratedLatencyMs
    difficulty,             \* session difficulty handed to assessPerformance
    hasStarted,             \* PerformanceTracker.hasStarted
    elapsedMs,              \* performance.now() - performanceStartTime
    currentTick,            \* PerformanceTracker.currentTick
    firstNoteOffsetTicks,   \* nullable: the Stage-2 fine offset
    firstSoundDetectedTick, \* nullable
    currentCentroid,        \* PerformanceTracker.currentCentroid
    currentHNR,             \* PerformanceTracker.currentHNR
    stateHistory,           \* the tick log: Seq(TickState)
    firstFrame,             \* history: first update() frame of the current raw tick
    lastFrame,              \* history: most recent update() frame
    calls,                  \* history: API calls made so far (performer steps for the onset performer)
    assessment,             \* nullable: result of assessPerformance at stop
    driver,                 \* who feeds the tracker: "free", a perfect or an onset performer
    earlier,                \* history, nullable: log and offset discarded by the last start()
    lastReading,            \* history, nullable: arguments of the last updateSpectral()
    returned,               \* nullable: the array getStateHistory() handed to its caller
    quantizer,              \* a RhythmQuantizer with its ArticulationDetector
    fresh,                  \* nullable: a quantizer constructed when the other was reset
    detector,               \* an ArticulationDetector used on its own
    lastCall,               \* history, nullable: the last note finalization on detector
    modal,                  \* CalibrationModal: its React state and what the last render showed
    timers,                 \* CalibrationModal: pending setTimeout step transitions
    metronome               \* the Metronome of the latency test

vars == <<score, tempo, transposeSemitones, calibratedLatencyMs, difficulty,
          hasStarted, elapsedMs, currentTick, firstNoteOffsetTicks,
          firstSoundDetectedTick, currentCentroid, currentHNR, stateHistory,
          firstFrame, lastFrame, calls, assessment, driver,
          earlier, lastReading, returned, quantizer, fresh, detector, lastCall,
          modal, timers, metronome>>

trackerVars == <<hasStarted, elapsedMs, currentTick, firstNoteOffsetTicks,
                 firstSoundDetectedTick, currentCentroid, currentHNR,
                 stateHistory>>

configVars == <<score, tempo, transposeSemitones, calibratedLatencyMs,
                difficulty, driver>>

sessionVars == <<earlier, lastReading, returned>>

componentVars == <<quantizer, fresh, detector, lastCall>>

uiVars == <<modal, timers, metronome>>

(***************************************************************************)
(* Nullable values and small arithmetic helpers                            *)
(***************************************************************************)
Null == <<>>
Some(v) == <<v>>
IsNull(x) == x = <<>>
Val(x) == x[1]

Abs(x) == IF x < 0 THEN -x ELSE x
Min(a, b) == IF a < b THEN a ELSE b
Max(a, b) == IF a > b THEN a ELSE b

\* Math.floor(a / b) for b > 0 and any integer a
FloorDiv(a, b) == a \div b

\* Math.round(a / b) for b > 0: round half up, floor((2a + b) / 2b)
RoundDiv(a, b) == (2 * a + b) \div (2 * b)

(***************************************************************************)
(* notation.ts                                                             *)
(***************************************************************************)
TICKS_PER_QUARTER == 48
TICKS_PER_EIGHTH == 24
TICKS_PER_TRIPLET == 16
TICKS_PER_DOTTED_QUARTER == 72
TICKS_PER_DOTTED_EIGHTH == 36
TICKS_PER_HALF == 96
TICKS_PER_DOTTED_HALF == 144

durToTicks(d) ==
    CASE d = "q"  -> TICKS_PER_QUARTER
      [] d = "8"  -> TICKS_PER_EIGHTH
      [] d = "q." -> TICKS_PER_DOTTED_QUARTER
      [] d = "8." -> TICKS_PER_DOTTED_EIGHTH
      [] d = "8t" -> TICKS_PER_TRIPLET
      [] d = "h"  -> TICKS_PER_HALF
      [] d = "h." -> TICKS_PER_DOTTED_HALF

stepBase(step) ==
    CASE step = "C" -> 0
      [] step = "D" -> 2
      [] step = "E" -> 4
      [] step = "F" -> 5
      [] step = "G" -> 7
      [] step = "A" -> 9
      [] step = "B" -> 11

pitchToMidi(p) == (p.octave + 1) * 12 + stepBase(p.step) + p.alter

(***************************************************************************)
(* Scores.  An event is a record {kind, pitch, dur, tiedFrom}; a rest      *)
(* carries the empty pitch record fields unused by the code.               *)
(***************************************************************************)
Spell(step, alter, octave) == [step |-> step, alter |-> alter, octave |-> octave]
NoteEv(p, d) == [kind |-> "note", pitch |-> p, dur |-> d, tiedFrom |-> FALSE]
TiedEv(p, d) == [kind |-> "note", pitch |-> p, dur |-> d, tiedFrom |-> TRUE]
RestEv(d)    == [kind |-> "rest", pitch |-> Spell("C", 0, 0), dur |-> d, tiedFrom |-> FALSE]

C5 == Spell("C", 0, 5)
D5 == Spell("D", 0, 5)
E5 == Spell("E", 0, 5)
F5 == Spell("F", 0, 5)

\* one 4/4 measure; cells 8t-8t-8t-q, then q and a quarter rest
ScoreTriplets ==
    << << NoteEv(C5, "8t"), NoteEv(D5, "8t"), NoteEv(E5, "8t"), NoteEv(F5, "q"),
          NoteEv(E5, "q"), RestEv("q") >> >>

\* one 4/4 measure; generator cell 8-8-q with isRest [true, false, false], then a half note
ScoreRestFirst ==
    << << RestEv("8"), NoteEv(C5, "8"), NoteEv(D5, "q"), NoteEv(E5, "h") >> >>

\* one 4/4 measure; generator cell q-q with isRest [true, false], then q and a quarter rest
ScoreLongRestFirst ==
    << << RestEv("q"), NoteEv(E5, "q"), NoteEv(C5, "q"), RestEv("q") >> >>

\* one 4/4 measure with a tie: q, q tied over to an eighth, eighth, quarter
ScoreTied ==
    << << NoteEv(C5, "q"), NoteEv(D5, "q"), TiedEv(D5, "8"), NoteEv(E5, "8"),
          NoteEv(C5, "q") >> >>

\* one 4/4 measure; generator cell two_quarters_repeat (relSteps [0, 0]), then a half note
ScoreRepeat ==
    << << NoteEv(C5, "q"), NoteEv(C5, "q"), NoteEv(D5, "h") >> >>

\* the events of a score in playing order (the nested for-of loops)
RECURSIVE Flatten(_)
Flatten(measures) ==
    IF measures = <<>> THEN <<>>
    ELSE Head(measures) \o Flatten(Tail(measures))

RECURSIVE SumTicks(_)
SumTicks(events) ==
    IF events = <<>> THEN 0
    ELSE durToTicks(Head(events).dur) + SumTicks(Tail(events))

ScoreTicks(s) == SumTicks(Flatten(s))

(***************************************************************************)
(* PerformanceTracker                                                      *)
(***************************************************************************)
\* msPerTick = (60000 / tempo) / 48
msPerTick(t) == (60000 \div t) \div 48

\* calibratedLatencyTicks = Math.round(calibratedLatencyMs / msPerTick)
calibratedLatencyTicks == RoundDiv(calibratedLatencyMs, msPerTick(tempo))

\* lower frequency bounds (Hz, rounded up) of MIDI 70..78:
\* 440 * 2^((m - 69.5) / 12); MIDI 69 starts at 428 Hz
MidiLowerBoundsHz == <<453, 480, 509, 539, 571, 605, 641, 679, 719>>

\* Math.round(69 + 12 * log2(hz / 440)) for 428 <= hz <= 761
hzToMidi(hz) == 69 + Cardinality({i \in DOMAIN MidiLowerBoundsHz : hz >= MidiLowerBoundsHz[i]})

SNAP_THRESHOLD == 30

\* the walk of getExpectedStateAtTick over the remaining events
RECURSIVE ExpectedWalk(_, _, _)
ExpectedWalk(events, tick, acc) ==
    IF events = <<>> THEN [kind |-> "none", pitch |-> Null]
    ELSE LET ev == Head(events)
             eventDuration == durToTicks(ev.dur)
         IN IF tick >= acc /\ tick < acc + eventDuration
            THEN IF ev.kind = "note"
                 THEN [kind |-> "note", pitch |-> Some(pitchToMidi(ev.pitch))]
                 ELSE [kind |-> "rest", pitch |-> Null]
            ELSE ExpectedWalk(Tail(events), tick, acc + eventDuration)

getExpectedStateAtTick(tick) == ExpectedWalk(Flatten(score), tick, 0)

\* mutant: update() runs whether or not start() was called
NotStarted_ignored == FALSE

\* the guard of update(): start() has not been called
NotStarted == ~hasStarted

\* the tick gate's new tick: Math.floor(elapsedMs / msPerTick)
NewTick(ms) == FloorDiv(ms, msPerTick(tempo))

\* mutant: the tick gate compares against the tick at start(), never refreshed
SameTick_stale(newTick) == newTick = 0

\* mutant: the tick gate never holds a frame back
SameTick_never(newTick) == FALSE

\* the tick gate: update() returns when no new tick has begun
SameTick(newTick) == newTick = currentTick

\* mutant: every sounding frame recomputes the offset
IsFirstSound_everySound(pitch, rms) == ~IsNull(pitch) /\ rms > 20

\* Stage 2 trigger: no offset yet, a pitch present and rms > 0.02
IsFirstSound(pitch, rms) == IsNull(firstNoteOffsetTicks) /\ ~IsNull(pitch) /\ rms > 20

\* mutant: the window has no lower bound
SnapOffset_noLowerBound(adjustedTick) ==
    IF adjustedTick <= SNAP_THRESHOLD THEN adjustedTick ELSE 0

\* Stage 2 value: the adjusted tick inside the snap window, else 0
SnapOffset(adjustedTick) ==
    IF adjustedTick >= 0 /\ adjustedTick <= SNAP_THRESHOLD THEN adjustedTick
    ELSE 0

\* mutant: a note is correct only on the exact pitch
Classify_exactPitch(expectedState, actualPitchMidi, rms) ==
    IF expectedState.kind = "note"
    THEN IF ~IsNull(actualPitchMidi) /\ ~IsNull(expectedState.pitch)
         THEN Abs(Val(actualPitchMidi) - Val(expectedState.pitch)) = 0
         ELSE FALSE
    ELSE IF expectedState.kind = "rest"
    THEN IsNull(actualPitchMidi) \/ rms < 15
    ELSE TRUE

\* mutant: a rest is judged by loudness alone
Classify_restByRmsOnly(expectedState, actualPitchMidi, rms) ==
    IF expectedState.kind = "note"
    THEN IF ~IsNull(actualPitchMidi) /\ ~IsNull(expectedState.pitch)
         THEN Abs(Val(actualPitchMidi) - Val(expectedState.pitch)) <= 1
         ELSE FALSE
    ELSE IF expectedState.kind = "rest"
    THEN rms < 15
    ELSE TRUE

\* mutant: beyond the score a tick is judged like a rest
Classify_noneAsRest(expectedState, actualPitchMidi, rms) ==
    IF expectedState.kind = "note"
    THEN IF ~IsNull(actualPitchMidi) /\ ~IsNull(expectedState.pitch)
         THEN Abs(Val(actualPitchMidi) - Val(expectedState.pitch)) <= 1
         ELSE FALSE
    ELSE IsNull(actualPitchMidi) \/ rms < 15

\* isCorrect of one tick
Classify(expectedState, actualPitchMidi, rms) ==
    IF expectedState.kind = "note"
    THEN IF ~IsNull(actualPitchMidi) /\ ~IsNull(expectedState.pitch)
         THEN Abs(Val(actualPitchMidi) - Val(expectedState.pitch)) <= 1
         ELSE FALSE
    ELSE IF expectedState.kind = "rest"
    THEN IsNull(actualPitchMidi) \/ rms < 15
    ELSE TRUE

\* mutant: no test for a null pitch; hzToMidi(null) is -Infinity, here a value
\* below every MIDI number
ActualPitchMidi_unguarded(pitch) ==
    IF IsNull(pitch) THEN Some(-1000) ELSE Some(hzToMidi(Val(pitch)) + transposeSemitones)

ActualPitchMidi(pitch) ==
    IF IsNull(pitch) THEN Null ELSE Some(hzToMidi(Val(pitch)) + transposeSemitones)

\* the TickState pushed by update()
TickStateOf(newTick, offset, pitch, rms, centroid, hnr) ==
    LET adjustedTick == newTick - calibratedLatencyTicks
        correctedTick == IF ~IsNull(offset) THEN adjustedTick - Val(offset) ELSE adjustedTick
        expectedState == getExpectedStateAtTick(correctedTick)
        actualPitchMidi == ActualPitchMidi(pitch)
    IN [tick |-> correctedTick,
        rawTick |-> newTick,
        expectedKind |-> expectedState.kind,
        expectedPitch |-> expectedState.pitch,
        actualPitch |-> actualPitchMidi,
        actualRMS |-> rms,
        isCorrect |-> Classify(expectedState, actualPitchMidi, rms),
        centroid |-> centroid,
        hnr |-> hnr]

\* mutant: the new entry goes to the front of the log
Push_front(log, entry) == <<entry>> \o log

\* stateHistory.push(entry)
Push(log, entry) == Append(log, entry)

\* mutant: start() keeps the per-performance offset
StartBody_keepsOffset ==
    /\ hasStarted' = TRUE
    /\ elapsedMs' = 0
    /\ currentTick' = 0
    /\ firstSoundDetectedTick' = Null
    /\ stateHistory' = <<>>
    /\ UNCHANGED <<firstNoteOffsetTicks, currentCentroid, currentHNR>>

\* start()
StartBody ==
    /\ hasStarted' = TRUE
    /\ elapsedMs' = 0
    /\ currentTick' = 0
    /\ firstNoteOffsetTicks' = Null
    /\ firstSoundDetectedTick' = Null
    /\ stateHistory' = <<>>
    /\ UNCHANGED <<currentCentroid, currentHNR>>

\* mutant: updateSpectral caches the centroid only
UpdateSpectralBody_dropsHnr(centroid, hnr) ==
    /\ currentCentroid' = centroid
    /\ UNCHANGED <<currentHNR, hasStarted, elapsedMs, currentTick, firstNoteOffsetTicks,
                   firstSoundDetectedTick, stateHistory>>

\* updateSpectral(centroid, hnr)
UpdateSpectralBody(centroid, hnr) ==
    /\ currentCentroid' = centroid
    /\ currentHNR' = hnr
    /\ UNCHANGED <<hasStarted, elapsedMs, currentTick, firstNoteOffsetTicks,
                   firstSoundDetectedTick, stateHistory>>

\* the steps of update(pitch, rms) when the clock reads ms after start and the
\* cached spectral readings are (centroid, hnr)
UpdateSteps(ms, pitch, rms, centroid, hnr) ==
    /\ UNCHANGED hasStarted
    /\ IF NotStarted
       THEN UNCHANGED <<elapsedMs, currentTick, firstNoteOffsetTicks,
                        firstSoundDetectedTick, stateHistory>>
       ELSE IF SameTick(NewTick(ms))
       THEN /\ elapsedMs' = ms
            /\ UNCHANGED <<currentTick, firstNoteOffsetTicks, firstSoundDetectedTick,
                           stateHistory>>
       ELSE LET newTick == NewTick(ms)
                adjustedTick == newTick - calibratedLatencyTicks
                first == IsFirstSound(pitch, rms)
                offset == IF first THEN Some(SnapOffset(adjustedTick))
                          ELSE firstNoteOffsetTicks
            IN /\ elapsedMs' = ms
               /\ currentTick' = newTick
               /\ firstNoteOffsetTicks' = offset
               /\ firstSoundDetectedTick' =
                      IF first THEN Some(adjustedTick) ELSE firstSoundDetectedTick
               /\ stateHistory' = Push(stateHistory,
                      TickStateOf(newTick, offset, pitch, rms, centroid, hnr))

\* mutant: getStateHistory() hands out the log itself
SharesLog_alias == TRUE

\* getStateHistory() returns [...this.stateHistory], an array of its own
SharesLog == FALSE

\* update(pitch, rms)
UpdateBody(ms, pitch, rms) ==
    /\ UpdateSteps(ms, pitch, rms, currentCentroid, currentHNR)
    /\ UNCHANGED <<currentCentroid, currentHNR>>

(***************************************************************************)
(* assessPerformance (src/lib/audio.ts).  The actualNotes list the         *)
(* function builds is only logged and feeds no field of the result, so it  *)
(* is not part of the model.  Ratios are kept exact until the point where  *)
(* the code rounds; the centroid standard deviation is a fixed-point       *)
(* square root.                                                            *)
(***************************************************************************)
\* scoreMultiplierForDifficulty, in thousandths
scoreMultiplierForDifficulty(d) ==
    CASE d = 1 -> 1000
      [] d = 2 -> 1025
      [] d = 3 -> 1050
      [] d = 4 -> 1075
      [] d = 5 -> 1100
      [] OTHER -> 1000

\* the expected-note windows of the remaining events
RECURSIVE ExpectedNotesWalk(_, _, _)
ExpectedNotesWalk(events, tick, notes) ==
    IF events = <<>> THEN notes
    ELSE LET ev == Head(events)
             duration == durToTicks(ev.dur)
         IN IF ev.kind = "note"
            THEN IF ~ev.tiedFrom
                 THEN ExpectedNotesWalk(Tail(events), tick + duration,
                          Append(notes, [startTick |-> tick,
                                         endTick |-> tick + duration,
                                         pitch |-> pitchToMidi(ev.pitch)]))
                 ELSE IF notes # <<>>
                      THEN ExpectedNotesWalk(Tail(events), tick + duration,
                               [notes EXCEPT ![Len(notes)].endTick = tick + duration])
                      ELSE ExpectedNotesWalk(Tail(events), tick + duration, notes)
            ELSE ExpectedNotesWalk(Tail(events), tick + duration, notes)

\* mutant: a tied-from note opens a window of its own
ExpectedNotes_tiesOpen(s) ==
    ExpectedNotesWalk([k \in DOMAIN Flatten(s) |-> [Flatten(s)[k] EXCEPT !.tiedFrom = FALSE]],
                      0, <<>>)

\* mutant: a rest does not advance the tick of the windows
ExpectedNotes_restsSkipped(s) ==
    ExpectedNotesWalk(SelectSeq(Flatten(s), LAMBDA ev : ev.kind = "note"), 0, <<>>)

ExpectedNotes(s) == ExpectedNotesWalk(Flatten(s), 0, <<>>)

SEARCH_WINDOW == 48
TENDENCY_THRESHOLD == 3
CONSISTENCY_THRESHOLD == 5

\* mutant: the onset search has no slack around the window
InSearchWindow_strict(state, note) ==
    state.tick >= note.startTick /\ state.tick < note.endTick

\* state.tick within [startTick - SEARCH_WINDOW, endTick + SEARCH_WINDOW)
InSearchWindow(state, note) ==
    /\ state.tick >= note.startTick - SEARCH_WINDOW
    /\ state.tick < note.endTick + SEARCH_WINDOW

\* state.tick within the strict window [startTick, endTick)
InNoteWindow(state, note) ==
    state.tick >= note.startTick /\ state.tick < note.endTick

\* isCorrectPitch
IsCorrectPitch(state, note) ==
    state.actualPitch = Some(note.pitch) /\ state.actualRMS > 20

\* nullable tick of the first log entry, in log order, with the right pitch
FirstCorrectTick(history, note) ==
    LET hits == {i \in DOMAIN history :
                    InSearchWindow(history[i], note) /\ IsCorrectPitch(history[i], note)}
    IN IF hits = {} THEN Null
       ELSE Some(history[CHOOSE i \in hits : \A j \in hits : i <= j].tick)

TotalTicksInRange(history, note) ==
    Cardinality({i \in DOMAIN history :
        InSearchWindow(history[i], note) /\ InNoteWindow(history[i], note)})

CorrectTicksInRange(history, note) ==
    Cardinality({i \in DOMAIN history :
        /\ InSearchWindow(history[i], note)
        /\ InNoteWindow(history[i], note)
        /\ IsCorrectPitch(history[i], note)})

\* mutant: a note passes only on more than half of its ticks
WasNotePlayedCorrectly_majority(history, note) ==
    LET total == TotalTicksInRange(history, note)
    IN IF total > 0 THEN 2 * CorrectTicksInRange(history, note) > total
       ELSE FALSE

\* accuracy >= 0.5, where accuracy is 0 when no tick lies in the window
WasNotePlayedCorrectly(history, note) ==
    LET total == TotalTicksInRange(history, note)
    IN IF total > 0 THEN 2 * CorrectTicksInRange(history, note) >= total
       ELSE FALSE

NoteResults(history, notes) ==
    [i \in DOMAIN notes |->
        [tick |-> notes[i].startTick,
         passed |-> WasNotePlayedCorrectly(history, notes[i])]]

\* noteTransitions: the timing offsets of the notes with a detected onset
RECURSIVE NoteTransitions(_, _)
NoteTransitions(history, notes) ==
    IF notes = <<>> THEN <<>>
    ELSE LET first == FirstCorrectTick(history, Head(notes))
         IN (IF IsNull(first) THEN <<>> ELSE <<Val(first) - Head(notes).startTick>>)
            \o NoteTransitions(history, Tail(notes))

\* mutant: every note with a detected onset counts as correct
NotesCorrect_byOnset(history, notes) ==
    Cardinality({i \in DOMAIN notes : ~IsNull(FirstCorrectTick(history, notes[i]))})

NotesCorrect(history, notes) ==
    Cardinality({i \in DOMAIN notes :
        /\ WasNotePlayedCorrectly(history, notes[i])
        /\ ~IsNull(FirstCorrectTick(history, notes[i]))})

RECURSIVE SeqSum(_)
SeqSum(q) == IF q = <<>> THEN 0 ELSE Head(q) + SeqSum(Tail(q))

RECURSIVE SeqSumSquares(_)
SeqSumSquares(q) == IF q = <<>> THEN 0 ELSE Head(q) * Head(q) + SeqSumSquares(Tail(q))

\* mutant: an average of exactly 3 ticks already counts as a tendency
ExceedsTendency_inclusive(sum, n) == Abs(sum) >= TENDENCY_THRESHOLD * n

\* Math.abs(avgOffset) > TENDENCY_THRESHOLD, with avgOffset = sum / n
ExceedsTendency(sum, n) == Abs(sum) > TENDENCY_THRESHOLD * n

\* timing tendency, average offset (a fraction num/den) and description
Timing(offsets, rounded) ==
    LET n == Len(offsets)
        sum == SeqSum(offsets)
        \* stdDev > 5  <=>  n * sum(o^2) - sum^2 > 25 * n^2
        spread == n * SeqSumSquares(offsets) - sum * sum
        rushingNotes == Cardinality({i \in DOMAIN offsets : offsets[i] < -3})
        draggingNotes == Cardinality({i \in DOMAIN offsets : offsets[i] > 3})
        avg == IF rounded THEN [num |-> RoundDiv(sum * 10, n), den |-> 10]
               ELSE [num |-> sum, den |-> n]
    IN IF n = 0
       THEN [tendency |-> "on-time", avgOffset |-> [num |-> 0, den |-> 1],
             description |-> "excellent"]
       ELSE IF ExceedsTendency(sum, n)
       THEN [tendency |-> IF sum > 0 THEN "dragging" ELSE "rushing",
             avgOffset |-> avg,
             description |-> IF sum > 0 THEN "behind" ELSE "ahead"]
       ELSE [tendency |-> "on-time",
             avgOffset |-> avg,
             description |->
                IF spread > CONSISTENCY_THRESHOLD * CONSISTENCY_THRESHOLD * n * n
                THEN IF 2 * rushingNotes > 3 * draggingNotes THEN "inconsistent-rushing"
                     ELSE IF 2 * draggingNotes > 3 * rushingNotes THEN "inconsistent-dragging"
                     ELSE "inconsistent-mixed"
                ELSE "great"]

\* floor of the square root, by bisection on [lo, hi)
RECURSIVE IsqrtBetween(_, _, _)
IsqrtBetween(v, lo, hi) ==
    IF hi - lo <= 1 THEN lo
    ELSE LET mid == (lo + hi) \div 2
         IN IF mid * mid <= v THEN IsqrtBetween(v, mid, hi)
            ELSE IsqrtBetween(v, lo, mid)

Isqrt(v) == IsqrtBetween(v, 0, 46341)


\* whether log entry i is one of noteStatesWithSpectral
WithSpectral(history, i) == history[i].expectedKind = "note" /\ history[i].hnr > 0

\* the reduce() sums over the selected log entries lo..hi, by halves
RECURSIVE SumHnr(_, _, _)
SumHnr(history, lo, hi) ==
    IF lo > hi THEN 0
    ELSE IF lo = hi THEN (IF WithSpectral(history, lo) THEN history[lo].hnr ELSE 0)
    ELSE LET mid == (lo + hi) \div 2
         IN SumHnr(history, lo, mid) + SumHnr(history, mid + 1, hi)

RECURSIVE SumCentroid(_, _, _)
SumCentroid(history, lo, hi) ==
    IF lo > hi THEN 0
    ELSE IF lo = hi THEN (IF WithSpectral(history, lo) THEN history[lo].centroid ELSE 0)
    ELSE LET mid == (lo + hi) \div 2
         IN SumCentroid(history, lo, mid) + SumCentroid(history, mid + 1, hi)

RECURSIVE SumCentroidSquares(_, _, _)
SumCentroidSquares(history, lo, hi) ==
    IF lo > hi THEN 0
    ELSE IF lo = hi
         THEN (IF WithSpectral(history, lo)
               THEN history[lo].centroid * history[lo].centroid ELSE 0)
    ELSE LET mid == (lo + hi) \div 2
         IN SumCentroidSquares(history, lo, mid) + SumCentroidSquares(history, mid + 1, hi)

\* the log entries tone quality is computed over
NoteStatesWithSpectral(history) == {i \in DOMAIN history : WithSpectral(history, i)}

\* hnrScore = clamp(avgHNR / 25, 0, 1), in 1/10000
HnrScore(sumHNR, n) ==
    IF sumHNR >= 25 * n THEN 10000
    ELSE IF sumHNR <= 0 THEN 0
    ELSE RoundDiv(sumHNR * 10000, 25 * n)

\* centroidConsistency = max(0, 1 - 1.5 * stdDev / avg), in 1/10000
CentroidConsistency(sumC, sumC2, n) ==
    LET spread == n * sumC2 - sumC * sumC     \* n^2 * variance
        cv == IF sumC > 0 THEN RoundDiv(Isqrt(spread * 1000000) * 10, sumC)
              ELSE 10000
    IN Max(0, 10000 - RoundDiv(15 * cv, 10))

\* toneQuality = (hnrScore * 0.6 + centroidConsistency * 0.4) * 1.1, in 1/10000
ToneQuality(hnrScore, consistency) ==
    RoundDiv((6 * hnrScore + 4 * consistency) * 11, 100)

\* Math.round of a1/b1 + a2/b2 + a3/b3
RoundSum3(a1, b1, a2, b2, a3, b3) ==
    (a1 \div b1) + (a2 \div b2) + (a3 \div b3)
    + RoundDiv((a1 % b1) * b2 * b3 + (a2 % b2) * b1 * b3 + (a3 % b3) * b1 * b2,
               b1 * b2 * b3)

\* mutant: the overall score is not held at 100
OverallScore_unclamped(correctNoteTicks, noteTicks, multiplier, correctTicks, totalTicks, tone) ==
    RoundSum3(5 * correctNoteTicks * multiplier, noteTicks,
              3000 * correctTicks, totalTicks,
              tone, 5)

\* overallScore = min(100, 100 * (0.5 p + 0.3 r + 0.2 t)), in hundredths
OverallScore(correctNoteTicks, noteTicks, multiplier, correctTicks, totalTicks, tone) ==
    Min(10000, RoundSum3(5 * correctNoteTicks * multiplier, noteTicks,
                         3000 * correctTicks, totalTicks,
                         tone, 5))

EmptyAssessment ==
    [overallScore |-> 0, pitchAccuracy |-> 0, rhythmAccuracy |-> 0, toneQuality |-> 0,
     timing |-> [tendency |-> "on-time", avgOffset |-> [num |-> 0, den |-> 1],
                 description |-> "no-data"],
     details |-> [totalTicks |-> 0, correctTicks |-> 0, noteTicks |-> 0,
                  correctNoteTicks |-> 0, correct |-> 0, total |-> 0],
     noteResults |-> <<>>]

\* mutant: the empty log takes the general path
IsEmptyLog_never(history) == FALSE

\* stateHistory.length === 0
IsEmptyLog(history) == history = <<>>

\* whether the function takes its no-spectral early return
NoSpectral(history) == NoteStatesWithSpectral(history) = {}

assessPerformance(history, s, d) ==
    IF IsEmptyLog(history) THEN EmptyAssessment
    ELSE
    LET scoreMultiplier == scoreMultiplierForDifficulty(d)
        totalTicks == Len(history)
        correctTicks == Cardinality({i \in DOMAIN history : history[i].isCorrect})
        noteTicks == {i \in DOMAIN history : history[i].expectedKind = "note"}
        correctNoteTicks == Cardinality({i \in noteTicks : history[i].isCorrect})
        withSpectral == NoteStatesWithSpectral(history)
        expectedNotes == ExpectedNotes(s)
        noteResults == NoteResults(history, expectedNotes)
        noteTransitions == NoteTransitions(history, expectedNotes)
        details == [totalTicks |-> totalTicks, correctTicks |-> correctTicks,
                    noteTicks |-> Cardinality(noteTicks),
                    correctNoteTicks |-> correctNoteTicks,
                    correct |-> NotesCorrect(history, expectedNotes),
                    total |-> Len(expectedNotes)]
    IN IF NoSpectral(history)
       THEN [overallScore |-> 0, pitchAccuracy |-> 0, rhythmAccuracy |-> 0,
             toneQuality |-> 0,
             timing |-> Timing(noteTransitions, FALSE),
             details |-> details,
             noteResults |-> noteResults]
       ELSE LET n == Cardinality(withSpectral)
                hnrScore == HnrScore(SumHnr(history, 1, Len(history)), n)
                consistency == CentroidConsistency(SumCentroid(history, 1, Len(history)),
                                   SumCentroidSquares(history, 1, Len(history)), n)
                toneQuality == ToneQuality(hnrScore, consistency)
            IN [overallScore |-> OverallScore(correctNoteTicks, Cardinality(noteTicks),
                                              scoreMultiplier, correctTicks, totalTicks,
                                              toneQuality),
                pitchAccuracy |-> RoundDiv(correctNoteTicks * scoreMultiplier * 10,
                                           Cardinality(noteTicks)),
                rhythmAccuracy |-> RoundDiv(correctTicks * 10000, totalTicks),
                toneQuality |-> toneQuality,
                timing |-> Timing(noteTransitions, TRUE),
                details |-> details,
                noteResults |-> noteResults]

\* mutant: tone quality is the gain over the calibrated baseline HNR
assessPerformanceCall_baselineDelta(history, baselineCentroid, baselineHNR, s, d) ==
    LET result == assessPerformance(history, s, d)
    IN [result EXCEPT !.toneQuality = Max(0, @ - 100 * baselineHNR)]

\* assessPerformance(stateHistory, baselineCentroid, baselineHNR, score, difficulty):
\* the body reads neither baseline parameter
assessPerformanceCall(history, baselineCentroid, baselineHNR, s, d) ==
    assessPerformance(history, s, d)

\* calibration results handed to assessPerformance: centroid in units of
\* 100 Hz, hnr in whole dB
Baselines == {[centroid |-> 10, hnr |-> 1], [centroid |-> 25, hnr |-> 18]}

(***************************************************************************)
(* ArticulationDetector (src/unnamed/part_005)                             *)
(***************************************************************************)
HISTORY_SIZE == 10

\* push onto a rolling array that keeps its last size values
PushRolling(values, v, size) ==
    LET pushed == Append(values, v)
    IN IF Len(pushed) > size THEN Tail(pushed) ELSE pushed

\* mutant: the staccato test comes before the accent test
detectArticulation_staccatoFirst(rmsHistory, durationTicks, expectedDurationTicks, rms, onsetSharpness) ==
    LET history == PushRolling(rmsHistory, rms, HISTORY_SIZE)
        sum == SeqSum(history)
        n == Len(history)
    IN [rmsHistory |-> history,
        label |->
           IF 2 * durationTicks < expectedDurationTicks /\ onsetSharpness > 60
           THEN "staccato"
           ELSE IF 2 * rms * n > 3 * sum /\ onsetSharpness > 70 THEN "accent"
           ELSE IF onsetSharpness < 30 /\ 10 * durationTicks >= 9 * expectedDurationTicks
           THEN "legato"
           ELSE "normal"]

\* detectArticulation: the new rmsHistory and the label
detectArticulation(rmsHistory, durationTicks, expectedDurationTicks, rms, onsetSharpness) ==
    LET history == PushRolling(rmsHistory, rms, HISTORY_SIZE)
        sum == SeqSum(history)
        n == Len(history)
    IN [rmsHistory |-> history,
        label |->
           \* rms > avgRMS * 1.5 && onsetSharpness > 0.7
           IF 2 * rms * n > 3 * sum /\ onsetSharpness > 70 THEN "accent"
           \* durationRatio < 0.5 && onsetSharpness > 0.6
           ELSE IF 2 * durationTicks < expectedDurationTicks /\ onsetSharpness > 60
           THEN "staccato"
           \* onsetSharpness < 0.3 && durationRatio >= 0.9
           ELSE IF onsetSharpness < 30 /\ 10 * durationTicks >= 9 * expectedDurationTicks
           THEN "legato"
           ELSE "normal"]

\* calculateOnsetSharpness, in hundredths
calculateOnsetSharpness(rmsWindow) ==
    IF Len(rmsWindow) < 3 THEN 0
    ELSE LET maxRMS == CHOOSE m \in {rmsWindow[i] : i \in DOMAIN rmsWindow} :
                           \A i \in DOMAIN rmsWindow : rmsWindow[i] <= m
             reached == {i \in DOMAIN rmsWindow : 10 * rmsWindow[i] >= 8 * maxRMS}
             \* findIndex is 0-based
             attackTime == (CHOOSE i \in reached : \A j \in reached : i <= j) - 1
         IN IF attackTime <= 0 THEN 100 ELSE Max(0, 100 - 10 * attackTime)

\* new ArticulationDetector()
NewDetector == [rmsHistory |-> <<>>]

(***************************************************************************)
(* RhythmQuantizer (src/unnamed/part_004)                                  *)
(***************************************************************************)
validDurations ==
    << TICKS_PER_QUARTER \div 3, TICKS_PER_QUARTER \div 2, (TICKS_PER_QUARTER * 3) \div 4,
       TICKS_PER_QUARTER, (TICKS_PER_QUARTER * 3) \div 2, TICKS_PER_QUARTER * 2,
       TICKS_PER_QUARTER * 3 >>

\* validDurations.reduce((prev, curr) => |curr - ticks| < |prev - ticks| ? curr : prev)
RECURSIVE ReduceNearest(_, _, _)
ReduceNearest(ticks, prev, rest) ==
    IF rest = <<>> THEN prev
    ELSE ReduceNearest(ticks,
             IF Abs(Head(rest) - ticks) < Abs(prev - ticks) THEN Head(rest) ELSE prev,
             Tail(rest))

\* mutant: of two equally near durations the larger one is returned
roundToNearestDuration_tiesUp(ticks) ==
    LET durations == {validDurations[i] : i \in DOMAIN validDurations}
    IN CHOOSE v \in durations :
          \A w \in durations :
              \/ Abs(v - ticks) < Abs(w - ticks)
              \/ Abs(v - ticks) = Abs(w - ticks) /\ v >= w

roundToNearestDuration(ticks) ==
    ReduceNearest(ticks, Head(validDurations), Tail(validDurations))

\* new RhythmQuantizer(tempo); its detector's history is the field rmsHistory
NewQuantizer ==
    [currentTick |-> 0,
     currentPitch |-> Null,
     noteStartTick |-> Null,
     noteStartRMS |-> 0,
     rmsBuffer |-> <<>>,
     events |-> <<>>,
     rmsHistory |-> <<>>]

\* finalizeNote()
finalizeNote(q) ==
    IF IsNull(q.noteStartTick) \/ IsNull(q.currentPitch) THEN q
    ELSE LET durationTicks == q.currentTick - Val(q.noteStartTick)
             expectedDurationTicks == roundToNearestDuration(durationTicks)
             onsetSharpness == calculateOnsetSharpness(q.rmsBuffer)
             detected == detectArticulation(q.rmsHistory, durationTicks,
                             expectedDurationTicks, q.noteStartRMS, onsetSharpness)
         IN [q EXCEPT
                !.events = Append(@, [kind |-> "note",
                                      pitch |-> Val(q.currentPitch),
                                      startTick |-> Val(q.noteStartTick),
                                      durationTicks |-> durationTicks,
                                      rms |-> q.noteStartRMS,
                                      articulation |-> detected.label,
                                      midiNote |-> hzToMidi(Val(q.currentPitch))]),
                !.rmsHistory = detected.rmsHistory,
                !.noteStartTick = Null,
                !.currentPitch = Null,
                !.noteStartRMS = 0]

\* mutant: a note opens on any frame with a pitch, whatever its rms
RhythmQuantizerUpdate_noRmsGate(q, ms, pitch, rms) ==
    LET newTick == FloorDiv(ms, msPerTick(tempo))
        ticked == [q EXCEPT !.currentTick = newTick,
                            !.rmsBuffer = PushRolling(@, rms, 10)]
    IN IF newTick = q.currentTick THEN q
       ELSE IF ~IsNull(pitch)
       THEN IF IsNull(ticked.noteStartTick)
            THEN [ticked EXCEPT !.noteStartTick = Some(newTick),
                                !.currentPitch = pitch,
                                !.noteStartRMS = rms]
            ELSE ticked
       ELSE IF ~IsNull(ticked.noteStartTick) THEN finalizeNote(ticked)
       ELSE ticked

\* mutant: update() has no tick gate
RhythmQuantizerUpdate_noTickGate(q, ms, pitch, rms) ==
    LET newTick == FloorDiv(ms, msPerTick(tempo))
        ticked == [q EXCEPT !.currentTick = newTick,
                            !.rmsBuffer = PushRolling(@, rms, 10)]
    IN IF ~IsNull(pitch) /\ rms > 20
       THEN IF IsNull(ticked.noteStartTick)
            THEN [ticked EXCEPT !.noteStartTick = Some(newTick),
                                !.currentPitch = pitch,
                                !.noteStartRMS = rms]
            ELSE ticked
       ELSE IF ~IsNull(ticked.noteStartTick) THEN finalizeNote(ticked)
       ELSE ticked

\* update(elapsedMs, pitch, rms)
RhythmQuantizerUpdate(q, ms, pitch, rms) ==
    LET newTick == FloorDiv(ms, msPerTick(tempo))
        ticked == [q EXCEPT !.currentTick = newTick,
                            !.rmsBuffer = PushRolling(@, rms, 10)]
    IN IF newTick = q.currentTick THEN q
       ELSE IF ~IsNull(pitch) /\ rms > 20
       THEN IF IsNull(ticked.noteStartTick)
            THEN [ticked EXCEPT !.noteStartTick = Some(newTick),
                                !.currentPitch = pitch,
                                !.noteStartRMS = rms]
            ELSE ticked
       ELSE IF ~IsNull(ticked.noteStartTick) THEN finalizeNote(ticked)
       ELSE ticked

\* mutant: reset() keeps the finalized events
RhythmQuantizerReset_keepsEvents(q) ==
    [q EXCEPT !.currentTick = 0, !.currentPitch = Null, !.noteStartTick = Null,
              !.rmsHistory = <<>>, !.rmsBuffer = <<>>]

\* reset(); noteStartRMS is not among the fields it assigns
RhythmQuantizerReset(q) ==
    [q EXCEPT !.events = <<>>, !.currentTick = 0, !.currentPitch = Null,
              !.noteStartTick = Null, !.rmsHistory = <<>>, !.rmsBuffer = <<>>]

(***************************************************************************)
(* Metronome (src/unnamed/part_006), count-in mode.  scheduledClicks is    *)
(* the number of clicks still scheduled; definiteTimeout is "null",        *)
(* "pending" or "fired" (a handle that fired stays in the field);          *)
(* rafPending says that an animation frame for updateBeat is requested.    *)
(* History fields: completions counts the runs of a completion callback    *)
(* (onComplete, or the callback handed to stop), beats the onBeat calls,   *)
(* stopped whether stop() was called since start(), late the onBeat and    *)
(* onComplete calls made after that stop().                                *)
(***************************************************************************)
COUNT_IN_BEATS == 16
TAPS_NEEDED == 8

\* new Metronome(ctx)
NewMetronome ==
    [isActive |-> FALSE, scheduledClicks |-> 0, totalBeats |-> 0,
     definiteTimeout |-> "null", rafPending |-> FALSE,
     completions |-> 0, beats |-> 0, stopped |-> FALSE, late |-> 0]

\* stop(callback)
MetronomeStop(m, withCallback) ==
    [m EXCEPT !.isActive = FALSE,
              !.scheduledClicks = 0,
              !.definiteTimeout = "null",
              !.stopped = TRUE,
              !.completions = IF withCallback THEN @ + 1 ELSE @]

\* start(tempo, beats, onComplete, onBeat): stop(), the clicks and the timeout
\* are scheduled, and the first updateBeat() runs before any click is due
MetronomeStart(m, beats) ==
    [MetronomeStop(m, FALSE) EXCEPT
        !.isActive = TRUE,
        !.scheduledClicks = beats,
        !.totalBeats = beats,
        !.definiteTimeout = "pending",
        !.rafPending = beats > 0,
        !.completions = 0, !.beats = 0, !.stopped = FALSE, !.late = 0]

\* updateBeat(time, completeCallback) in an animation frame; due says whether
\* now >= scheduledClicks[0]
MetronomeUpdateBeat(m, due) ==
    IF m.scheduledClicks = 0 THEN [m EXCEPT !.rafPending = FALSE]
    ELSE LET checked == IF ~m.isActive
                        THEN [MetronomeStop(m, TRUE) EXCEPT
                                 !.late = IF m.stopped THEN @ + 1 ELSE @]
                        ELSE m
             clicked == IF due /\ checked.scheduledClicks > 0
                        THEN [checked EXCEPT
                                 !.beats = @ + 1,
                                 !.scheduledClicks = @ - 1,
                                 !.late = IF checked.stopped THEN @ + 1 ELSE @]
                        ELSE checked
         IN [clicked EXCEPT !.rafPending = clicked.scheduledClicks > 0]

\* the completion timeout of start() fires: onComplete()
MetronomeTimeout(m) ==
    [m EXCEPT !.definiteTimeout = "fired",
              !.completions = @ + 1,
              !.late = IF m.stopped THEN @ + 1 ELSE @]

(***************************************************************************)
(* CalibrationModal (src/components/CalibrationModal.tsx).  The sample     *)
(* arrays are modelled by their lengths.  seen is what the last render     *)
(* handed to the event handlers (their closures).                          *)
(***************************************************************************)
SAMPLES_NEEDED == 30
SOFT_TARGET_MIN == 15
SOFT_TARGET_MAX == 40
LOUD_TARGET_MIN == 60
LOUD_TARGET_MAX == 150

StepOrder ==
    <<"intro", "volume-soft", "volume-loud", "latency-intro", "latency-test", "complete">>
StepRank(step) == CHOOSE i \in DOMAIN StepOrder : StepOrder[i] = step

\* what a render hands to the effects and the event handlers
Rendered(m) ==
    [step |-> m.step, currentRMS |-> m.currentRMS, softSamples |-> m.softSamples,
     loudSamples |-> m.loudSamples, isMetronomePlaying |-> m.isMetronomePlaying]

NewModal ==
    [step |-> "intro", currentRMS |-> 0, softSamples |-> 0, loudSamples |-> 0,
     isMetronomePlaying |-> FALSE, taps |-> 0,
     seen |-> [step |-> "intro", currentRMS |-> 0, softSamples |-> 0,
               loudSamples |-> 0, isMetronomePlaying |-> FALSE]]

\* 500 ms, in audio frames of 100 ms
DelayFrames == 5

\* one run of the soft-volume effect on the rendered values r: whether it adds
\* a sample and whether it schedules the transition to "volume-loud"
SoftVolumeEffect(r) ==
    IF r.step = "volume-soft" /\ r.currentRMS > 5
    THEN [push |-> /\ r.currentRMS >= SOFT_TARGET_MIN
                   /\ r.currentRMS <= SOFT_TARGET_MAX
                   /\ r.softSamples < SAMPLES_NEEDED,
          schedules |-> r.softSamples >= SAMPLES_NEEDED]
    ELSE [push |-> FALSE, schedules |-> FALSE]

\* one run of the loud-volume effect: whether it adds a sample and whether it
\* schedules the transition to "latency-intro"
LoudVolumeEffect(r) ==
    IF r.step = "volume-loud" /\ r.currentRMS > 10
    THEN [push |-> /\ r.currentRMS >= LOUD_TARGET_MIN
                   /\ r.currentRMS <= LOUD_TARGET_MAX
                   /\ r.loudSamples < SAMPLES_NEEDED,
          schedules |-> r.loudSamples >= SAMPLES_NEEDED]
    ELSE [push |-> FALSE, schedules |-> FALSE]

InitUi ==
    /\ modal = NewModal
    /\ timers = <<>>
    /\ metronome = NewMetronome

\* the state of the components a tracker session does not use
InitComponents ==
    /\ quantizer = NewQuantizer
    /\ fresh = Null
    /\ detector = NewDetector
    /\ lastCall = Null

InitSession ==
    /\ earlier = Null
    /\ lastReading = Null
    /\ returned = Null

(***************************************************************************)
(* Inputs of the free-running session                                      *)
(***************************************************************************)
MaxCalls == 3                         \* update() and updateSpectral() calls of a run

Scores == {ScoreTriplets, ScoreRestFirst}
Tempos == {125}                       \* msPerTick = 10
Transpositions == {0}
LatenciesMs == {0, 20}
Difficulties == {3}
FrameGapsMs == {4, 10, 160}           \* time between two analysis frames
\* analysis frames: silence, noise without a pitch, C5 and C#5 played,
\* C5 at the rms gate and C5 below the rest threshold
Frames ==
    { [pitch |-> Null, rms |-> 0],
      [pitch |-> Null, rms |-> 20],
      [pitch |-> Some(523), rms |-> 100],
      [pitch |-> Some(554), rms |-> 100],
      [pitch |-> Some(523), rms |-> 20],
      [pitch |-> Some(523), rms |-> 10] }
SpectralReadings == {[centroid |-> 0, hnr |-> 0], [centroid |-> 15, hnr |-> 20]}

FrameOf(ms, pitch, rms) ==
    [tick |-> NewTick(ms), pitch |-> ActualPitchMidi(pitch), rms |-> rms]

\* bookkeeping of the frames handed to update(); before start() no tick runs
\* and only the most recent frame is kept
RecordFrame(ms, pitch, rms) ==
    IF hasStarted
    THEN /\ lastFrame' = Some(FrameOf(ms, pitch, rms))
         /\ firstFrame' = IF ~IsNull(lastFrame) /\ Val(lastFrame).tick = NewTick(ms)
                          THEN firstFrame
                          ELSE Some(FrameOf(ms, pitch, rms))
    ELSE /\ lastFrame' = Some(FrameOf(ms, pitch, rms))
         /\ UNCHANGED firstFrame

Init ==
    /\ score \in Scores
    /\ tempo \in Tempos
    /\ transposeSemitones \in Transpositions
    /\ calibratedLatencyMs \in LatenciesMs
    /\ difficulty \in Difficulties
    /\ driver = "free"
    /\ hasStarted = FALSE
    /\ elapsedMs = 0
    /\ currentTick = 0
    /\ firstNoteOffsetTicks = Null
    /\ firstSoundDetectedTick = Null
    /\ currentCentroid = 0
    /\ currentHNR = 0
    /\ stateHistory = <<>>
    /\ firstFrame = Null
    /\ lastFrame = Null
    /\ calls = 0
    /\ assessment = Null
    /\ InitSession
    /\ InitComponents
    /\ InitUi

Start ==
    /\ StartBody
    /\ firstFrame' = Null
    /\ lastFrame' = Null
    /\ assessment' = Null
    /\ UNCHANGED calls
    /\ UNCHANGED configVars
    /\ UNCHANGED <<sessionVars, componentVars, uiVars>>

UpdateSpectral ==
    /\ calls < MaxCalls
    /\ IsNull(assessment)
    /\ \E r \in SpectralReadings : UpdateSpectralBody(r.centroid, r.hnr)
    /\ calls' = calls + 1
    /\ UNCHANGED <<firstFrame, lastFrame, assessment>>
    /\ UNCHANGED configVars
    /\ UNCHANGED <<sessionVars, componentVars, uiVars>>

Update ==
    /\ calls < MaxCalls
    /\ IsNull(assessment)
    /\ \E gap \in FrameGapsMs, f \in Frames :
          LET ms == elapsedMs + gap
          IN UpdateBody(ms, f.pitch, f.rms) /\ RecordFrame(ms, f.pitch, f.rms)
    /\ calls' = calls + 1
    /\ UNCHANGED assessment
    /\ UNCHANGED configVars
    /\ UNCHANGED <<sessionVars, componentVars, uiVars>>

\* handleStop: getStateHistory() handed to assessPerformance
Assess ==
    /\ hasStarted
    /\ IsNull(assessment)
    /\ \E b \in Baselines :
          assessment' = Some(assessPerformanceCall(stateHistory, b.centroid, b.hnr,
                                                   score, difficulty))
    /\ UNCHANGED <<firstFrame, lastFrame, calls>>
    /\ UNCHANGED trackerVars
    /\ UNCHANGED configVars
    /\ UNCHANGED <<sessionVars, componentVars, uiVars>>

Next == Start \/ UpdateSpectral \/ Update \/ Assess

Spec == Init /\ [][Next]_vars

(***************************************************************************)
(* The perfect performer: one analysis frame per tick; the frame of raw    *)
(* tick r carries the pitch the score expects at tick r - delay (rms 0.1), *)
(* silence (no pitch, rms 0) during rests, before the delayed entrance and *)
(* after the end.  The delay is the calibrated latency in ticks.  The      *)
(* frame of tick 0 is dropped by the tick gate and changes nothing, so the *)
(* first frame modelled is the one of tick 1.                              *)
(* The driver "perfect" never reports spectral readings; the driver        *)
(* "perfectTone" reports a steady tone with every sounding frame and       *)
(* (0, 0) with every silent one, as the audio loop does.                   *)
(***************************************************************************)
PostRollTicks == 2                    \* silent frames after the score's last tick

PerfectScores == {ScoreTriplets, ScoreRestFirst, ScoreLongRestFirst, ScoreTied, ScoreRepeat}
PerfectTranspositions == {0, 2}
PerfectDifficulties == {1, 5}
PerfectDrivers == {"perfect", "perfectTone"}
SteadyTone == [centroid |-> 15, hnr |-> 25]

\* nominal frequency (Hz, rounded) of MIDI 69..78
MidiNominalHz == <<440, 466, 494, 523, 554, 587, 622, 659, 698, 740>>
midiToHz(m) == MidiNominalHz[m - 68]

\* what the performer plays when the score is at tick t
PerformedFrame(t) ==
    LET expected == getExpectedStateAtTick(t)
    IN IF expected.kind = "note"
       THEN [pitch |-> Some(midiToHz(Val(expected.pitch) - transposeSemitones)), rms |-> 100]
       ELSE [pitch |-> Null, rms |-> 0]

\* raw tick of the last frame that belongs to the score
LastScoreRawTick == ScoreTicks(score) + calibratedLatencyTicks - 1

InitPerfect ==
    /\ score \in PerfectScores
    /\ tempo \in Tempos
    /\ transposeSemitones \in PerfectTranspositions
    /\ calibratedLatencyMs \in LatenciesMs
    /\ difficulty \in PerfectDifficulties
    /\ driver \in PerfectDrivers
    /\ hasStarted = FALSE
    /\ elapsedMs = 0
    /\ currentTick = 0
    /\ firstNoteOffsetTicks = Null
    /\ firstSoundDetectedTick = Null
    /\ currentCentroid = 0
    /\ currentHNR = 0
    /\ stateHistory = <<>>
    /\ firstFrame = Null
    /\ lastFrame = Null
    /\ calls = 0
    /\ assessment = Null
    /\ InitSession
    /\ InitComponents
    /\ InitUi

PerfectStart ==
    /\ ~hasStarted
    /\ StartBody
    /\ UNCHANGED <<firstFrame, lastFrame, calls, assessment>>
    /\ UNCHANGED configVars
    /\ UNCHANGED <<sessionVars, componentVars, uiVars>>

\* one frame of the performance: updateSpectral (driver "perfectTone") then update
PerfectFrame ==
    /\ hasStarted
    /\ IsNull(assessment)
    /\ currentTick < LastScoreRawTick + PostRollTicks
    /\ LET ms == elapsedMs + msPerTick(tempo)
           f == PerformedFrame(NewTick(ms) - calibratedLatencyTicks)
           reading == IF driver = "perfectTone"
                      THEN IF ~IsNull(f.pitch) THEN SteadyTone ELSE [centroid |-> 0, hnr |-> 0]
                      ELSE [centroid |-> currentCentroid, hnr |-> currentHNR]
       IN /\ currentCentroid' = reading.centroid
          /\ currentHNR' = reading.hnr
          /\ UpdateSteps(ms, f.pitch, f.rms, reading.centroid, reading.hnr)
    /\ UNCHANGED <<firstFrame, lastFrame, calls, assessment>>
    /\ UNCHANGED configVars
    /\ UNCHANGED <<sessionVars, componentVars, uiVars>>

\* the performance is stopped once the score has been played through
PerfectStop ==
    /\ hasStarted
    /\ IsNull(assessment)
    /\ currentTick >= LastScoreRawTick
    /\ \E b \in Baselines :
          assessment' = Some(assessPerformanceCall(stateHistory, b.centroid, b.hnr,
                                                   score, difficulty))
    /\ UNCHANGED <<firstFrame, lastFrame, calls>>
    /\ UNCHANGED trackerVars
    /\ UNCHANGED configVars
    /\ UNCHANGED <<sessionVars, componentVars, uiVars>>

NextPerfect == PerfectStart \/ PerfectFrame \/ PerfectStop

SpecPerfect == InitPerfect /\ [][NextPerfect]_vars

(***************************************************************************)
(* The onset performer: update() is called once per score note, at the     *)
(* note's start plus a chosen deviation (or not at all when the note is    *)
(* missed), with the note's pitch at rms 0.1 and a steady tone reported by *)
(* updateSpectral just before.  Before the first note the performer        *)
(* sounds a tuning A4 in the first tick after start(); with the calibrated *)
(* latency of this driver that frame lies before the score and freezes the *)
(* Stage 2 offset at 0.  The variable calls counts the performer's steps:  *)
(* step 0 is the tuning note, step k the k-th expected note.  The          *)
(* difficulty handed to assessPerformance is chosen when the performance   *)
(* is stopped.                                                             *)
(***************************************************************************)
OnsetScores == {ScoreTriplets, ScoreTied}
OnsetLatenciesMs == {80}
OnsetDifficulties == {1, 5}
Deviations == {-6, -1, 1, 4, 5, 6}     \* ticks between a note's start and its onset
TuningHz == midiToHz(69)

InitOnsets ==
    /\ score \in OnsetScores
    /\ tempo \in Tempos
    /\ transposeSemitones = 0
    /\ calibratedLatencyMs \in OnsetLatenciesMs
    /\ difficulty = 2                  \* the page's default setting
    /\ driver = "onsets"
    /\ hasStarted = FALSE
    /\ elapsedMs = 0
    /\ currentTick = 0
    /\ firstNoteOffsetTicks = Null
    /\ firstSoundDetectedTick = Null
    /\ currentCentroid = 0
    /\ currentHNR = 0
    /\ stateHistory = <<>>
    /\ firstFrame = Null
    /\ lastFrame = Null
    /\ calls = 0
    /\ assessment = Null
    /\ InitSession
    /\ InitComponents
    /\ InitUi

OnsetsStart ==
    /\ ~hasStarted
    /\ StartBody
    /\ UNCHANGED <<firstFrame, lastFrame, calls, assessment>>
    /\ UNCHANGED configVars
    /\ UNCHANGED <<sessionVars, componentVars, uiVars>>

\* updateSpectral(steady tone) then update(hz, 0.1) at raw tick rawTick
SoundAt(rawTick, hz) ==
    /\ rawTick > currentTick
    /\ currentCentroid' = SteadyTone.centroid
    /\ currentHNR' = SteadyTone.hnr
    /\ UpdateSteps(rawTick * msPerTick(tempo), Some(hz), 100,
                   SteadyTone.centroid, SteadyTone.hnr)

\* step 0: the tuning note
OnsetsTune ==
    /\ hasStarted
    /\ calls = 0
    /\ SoundAt(1, TuningHz)
    /\ calls' = 1
    /\ UNCHANGED <<firstFrame, lastFrame, assessment>>
    /\ UNCHANGED configVars
    /\ UNCHANGED <<sessionVars, componentVars, uiVars>>

\* step k: the k-th expected note is played at a deviation, or missed
OnsetsNote ==
    /\ hasStarted
    /\ calls \in DOMAIN ExpectedNotes(score)
    /\ LET note == ExpectedNotes(score)[calls]
       IN \/ \E dev \in Deviations :
                SoundAt(note.startTick + dev + calibratedLatencyTicks, midiToHz(note.pitch))
          \/ UNCHANGED trackerVars
    /\ calls' = calls + 1
    /\ UNCHANGED <<firstFrame, lastFrame, assessment>>
    /\ UNCHANGED configVars
    /\ UNCHANGED <<sessionVars, componentVars, uiVars>>

\* handleStop once the score is over
OnsetsStop ==
    /\ hasStarted
    /\ IsNull(assessment)
    /\ calls = Len(ExpectedNotes(score)) + 1
    /\ \E d \in OnsetDifficulties :
          /\ difficulty' = d
          /\ \E b \in Baselines :
                assessment' = Some(assessPerformanceCall(stateHistory, b.centroid, b.hnr,
                                                         score, d))
    /\ UNCHANGED <<score, tempo, transposeSemitones, calibratedLatencyMs, driver>>
    /\ UNCHANGED <<sessionVars, componentVars, uiVars>>
    /\ UNCHANGED <<firstFrame, lastFrame, calls>>
    /\ UNCHANGED trackerVars

NextOnsets == OnsetsStart \/ OnsetsTune \/ OnsetsNote \/ OnsetsStop

SpecOnsets == InitOnsets /\ [][NextOnsets]_vars

(***************************************************************************)
(* A tracker session with its caller: start() at any time (again too),     *)
(* updateSpectral(), update(), getStateHistory(), and the caller appending *)
(* to or removing from the array it was handed.  The array and the log are *)
(* one object exactly when getStateHistory() hands out the log itself; an  *)
(* array that is the log changes with it, and start() gives the tracker a  *)
(* new, empty log and leaves the old array to the caller.                  *)
(***************************************************************************)
MaxSessionCalls == 3                  \* update() and updateSpectral() calls of a run
SessionScores == {ScoreTriplets, <<>>, << <<>> >>}
SessionGapsMs == {4, 20}
SessionFrames ==
    { [pitch |-> Null,      rms |-> 0],
      [pitch |-> Some(523), rms |-> 100],
      [pitch |-> Some(587), rms |-> 10] }
SessionReadings == {[centroid |-> 15, hnr |-> 20], [centroid |-> 9, hnr |-> 12]}

\* what the caller appends to the array it holds
CallerEntry ==
    [tick |-> -1, rawTick |-> -1, expectedKind |-> "none", expectedPitch |-> Null,
     actualPitch |-> Null, actualRMS |-> 0, isCorrect |-> FALSE, centroid |-> 0, hnr |-> 0]

InitSessionSpec ==
    /\ score \in SessionScores
    /\ tempo \in Tempos
    /\ transposeSemitones = 0
    /\ calibratedLatencyMs = 0
    /\ difficulty = 2
    /\ driver = "session"
    /\ hasStarted = FALSE
    /\ elapsedMs = 0
    /\ currentTick = 0
    /\ firstNoteOffsetTicks = Null
    /\ firstSoundDetectedTick = Null
    /\ currentCentroid = 0
    /\ currentHNR = 0
    /\ stateHistory = <<>>
    /\ firstFrame = Null
    /\ lastFrame = Null
    /\ calls = 0
    /\ assessment = Null
    /\ InitSession
    /\ InitComponents
    /\ InitUi

sessionRest == <<configVars, firstFrame, lastFrame, assessment, componentVars, uiVars>>

\* the caller's array after the tracker's log became newLog
ArrayAfter(newLog) ==
    IF ~IsNull(returned) /\ Val(returned).shared
    THEN Some([Val(returned) EXCEPT !.array = newLog])
    ELSE returned

\* start(); a start() on a started tracker ends a performance
SessionStart ==
    /\ StartBody
    /\ earlier' = IF hasStarted
                  THEN Some([log |-> stateHistory, offset |-> firstNoteOffsetTicks])
                  ELSE earlier
    /\ returned' = IF IsNull(returned) THEN returned
                   ELSE Some([Val(returned) EXCEPT !.shared = FALSE])
    /\ UNCHANGED <<lastReading, calls>>
    /\ UNCHANGED sessionRest

SessionUpdateSpectral ==
    /\ calls < MaxSessionCalls
    /\ \E r \in SessionReadings :
          /\ UpdateSpectralBody(r.centroid, r.hnr)
          /\ lastReading' = Some([centroid |-> r.centroid, hnr |-> r.hnr, call |-> calls + 1])
    /\ calls' = calls + 1
    /\ UNCHANGED <<earlier, returned>>
    /\ UNCHANGED sessionRest

SessionUpdate ==
    /\ calls < MaxSessionCalls
    /\ \E gap \in SessionGapsMs, f \in SessionFrames :
          UpdateBody(elapsedMs + gap, f.pitch, f.rms)
    /\ returned' = ArrayAfter(stateHistory')
    /\ calls' = calls + 1
    /\ UNCHANGED <<earlier, lastReading>>
    /\ UNCHANGED sessionRest

\* getStateHistory()
GetStateHistory ==
    /\ returned' = Some([array |-> stateHistory, shared |-> SharesLog,
                         taken |-> Len(stateHistory)])
    /\ UNCHANGED <<earlier, lastReading, calls>>
    /\ UNCHANGED trackerVars
    /\ UNCHANGED sessionRest

\* the caller's returnedArray.push(entry), once per array
CallerPush ==
    /\ ~IsNull(returned)
    /\ \A i \in DOMAIN Val(returned).array : Val(returned).array[i] # CallerEntry
    /\ returned' = Some([Val(returned) EXCEPT !.array = Append(@, CallerEntry)])
    /\ stateHistory' = IF Val(returned).shared THEN Append(stateHistory, CallerEntry)
                       ELSE stateHistory
    /\ UNCHANGED <<hasStarted, elapsedMs, currentTick, firstNoteOffsetTicks,
                   firstSoundDetectedTick, currentCentroid, currentHNR>>
    /\ UNCHANGED <<earlier, lastReading, calls>>
    /\ UNCHANGED sessionRest

\* the caller's returnedArray.pop()
CallerPop ==
    /\ ~IsNull(returned)
    /\ Val(returned).array # <<>>
    /\ returned' = Some([Val(returned) EXCEPT !.array = SubSeq(@, 1, Len(@) - 1)])
    /\ stateHistory' = IF Val(returned).shared
                       THEN SubSeq(stateHistory, 1, Len(stateHistory) - 1)
                       ELSE stateHistory
    /\ UNCHANGED <<hasStarted, elapsedMs, currentTick, firstNoteOffsetTicks,
                   firstSoundDetectedTick, currentCentroid, currentHNR>>
    /\ UNCHANGED <<earlier, lastReading, calls>>
    /\ UNCHANGED sessionRest

NextSession ==
    \/ SessionStart
    \/ SessionUpdateSpectral
    \/ SessionUpdate
    \/ GetStateHistory
    \/ CallerPush
    \/ CallerPop

SpecSession == InitSessionSpec /\ [][NextSession]_vars

(***************************************************************************)
(* Note finalization on a detector of its own: the computation of          *)
(* finalizeNote (raw duration, snapped duration, articulation) on inputs   *)
(* drawn from small sets, with reset() of the detector in between.         *)
(***************************************************************************)
MaxFinalizations == 2                 \* notes finalized in a run
NoteRmsLevels == {50, 100, 200}       \* onset rms of a note: 0.05, 0.1, 0.2
\* raw durations in ticks: every canonical duration, every midpoint of two
\* neighbouring ones, the ticks next to each of them, and the two ends
RawDurations ==
    LET marks == {16, 24, 36, 48, 72, 96, 144} \cup {20, 30, 42, 60, 84, 120}
    IN {0, 5, 150} \cup {m + d : m \in marks, d \in {-1, 0, 1}}
Sharpnesses == {0, 65, 90}            \* onset sharpness: 0, 0.65, 0.9

\* a tracker that is constructed and never started
IdleTracker ==
    /\ score = ScoreTriplets
    /\ tempo \in Tempos
    /\ transposeSemitones = 0
    /\ calibratedLatencyMs = 0
    /\ difficulty = 2
    /\ hasStarted = FALSE
    /\ elapsedMs = 0
    /\ currentTick = 0
    /\ firstNoteOffsetTicks = Null
    /\ firstSoundDetectedTick = Null
    /\ currentCentroid = 0
    /\ currentHNR = 0
    /\ stateHistory = <<>>
    /\ firstFrame = Null
    /\ lastFrame = Null
    /\ calls = 0
    /\ assessment = Null
    /\ InitSession

trackerIdle == <<configVars, trackerVars, firstFrame, lastFrame, assessment, sessionVars>>

trackerSide == <<trackerIdle, uiVars>>

InitArticulation ==
    /\ IdleTracker
    /\ driver = "detector"
    /\ InitComponents
    /\ InitUi

\* lines 77-86 of finalizeNote on the detector, for a note of the given raw
\* duration, onset rms and onset sharpness
FinalizeOnDetector ==
    /\ calls < MaxFinalizations
    /\ \E durationTicks \in RawDurations, rms \in NoteRmsLevels,
          onsetSharpness \in Sharpnesses :
          LET expectedDurationTicks == roundToNearestDuration(durationTicks)
              detected == detectArticulation(detector.rmsHistory, durationTicks,
                              expectedDurationTicks, rms, onsetSharpness)
          IN /\ detector' = [rmsHistory |-> detected.rmsHistory]
             /\ lastCall' = Some([durationTicks |-> durationTicks,
                                  expectedDurationTicks |-> expectedDurationTicks,
                                  rms |-> rms,
                                  onsetSharpness |-> onsetSharpness,
                                  before |-> detector.rmsHistory,
                                  label |-> detected.label])
    /\ calls' = calls + 1
    /\ UNCHANGED <<quantizer, fresh>>
    /\ UNCHANGED trackerSide

\* ArticulationDetector.reset()
ResetDetector ==
    /\ detector.rmsHistory # <<>>
    /\ detector' = NewDetector
    /\ UNCHANGED <<quantizer, fresh, lastCall, calls>>
    /\ UNCHANGED trackerSide

NextArticulation == FinalizeOnDetector \/ ResetDetector

SpecArticulation == InitArticulation /\ [][NextArticulation]_vars

(***************************************************************************)
(* A RhythmQuantizer fed by a caller: update() with frames at a growing    *)
(* elapsed time, and reset().  From a reset() on, a quantizer constructed  *)
(* at that moment with the same tempo receives the same update() calls.    *)
(***************************************************************************)
MaxQuantizerCalls == 5                \* update() calls of a run
QuantizerGapsTicks == {0, 1, 7}       \* ticks between two update() calls
QuantizerFrames ==
    { [pitch |-> Null,      rms |-> 0],
      [pitch |-> Some(523), rms |-> 100],
      [pitch |-> Some(523), rms |-> 15],      \* below the 0.02 gate
      [pitch |-> Some(587), rms |-> 200] }

InitQuantizer ==
    /\ IdleTracker
    /\ driver = "quantizer"
    /\ InitComponents
    /\ InitUi

\* elapsed time of the caller's last update()
CallerClock == IF IsNull(lastCall) THEN 0 ELSE Val(lastCall).elapsedMs

\* quantizer.update(elapsedMs, pitch, rms), also made on the twin if there is one
QuantizerUpdate ==
    /\ calls < MaxQuantizerCalls
    /\ \E gap \in QuantizerGapsTicks, f \in QuantizerFrames :
          LET ms == CallerClock + gap * msPerTick(tempo)
          IN /\ quantizer' = RhythmQuantizerUpdate(quantizer, ms, f.pitch, f.rms)
             /\ fresh' = IF IsNull(fresh) THEN fresh
                         ELSE Some([Val(fresh) EXCEPT
                                 !.twin = RhythmQuantizerUpdate(@, ms, f.pitch, f.rms)])
             /\ lastCall' = Some([elapsedMs |-> ms, pitch |-> f.pitch, rms |-> f.rms])
    /\ calls' = calls + 1
    /\ UNCHANGED detector
    /\ UNCHANGED trackerSide

\* quantizer.reset(); the caller goes on with its clock or restarts it at 0
QuantizerReset ==
    /\ quantizer # NewQuantizer
    /\ quantizer' = RhythmQuantizerReset(quantizer)
    /\ fresh' = Some([twin |-> NewQuantizer,
                      pending |-> ~IsNull(quantizer.noteStartTick),
                      dropped |-> Len(quantizer.events)])
    /\ lastCall' \in {lastCall, Null}
    /\ UNCHANGED <<detector, calls>>
    /\ UNCHANGED trackerSide

NextQuantizer == QuantizerUpdate \/ QuantizerReset

SpecQuantizer == InitQuantizer /\ [][NextQuantizer]_vars

(***************************************************************************)
(* The score's timeline seen from both sides: for a score and a tick, the  *)
(* expected state the tracker computes and the expected-note windows the   *)
(* assessment builds.                                                      *)
(***************************************************************************)
MaxProbeTick == 200                   \* the scores end at tick 192
TimelineScores ==
    {ScoreTriplets, ScoreRestFirst, ScoreLongRestFirst, ScoreTied, ScoreRepeat, <<>>}

InitTimeline ==
    /\ score \in TimelineScores
    /\ tempo \in Tempos
    /\ transposeSemitones = 0
    /\ calibratedLatencyMs = 0
    /\ difficulty = 2
    /\ driver = "timeline"
    /\ hasStarted = FALSE
    /\ elapsedMs = 0
    /\ currentTick = 0
    /\ firstNoteOffsetTicks = Null
    /\ firstSoundDetectedTick = Null
    /\ currentCentroid = 0
    /\ currentHNR = 0
    /\ stateHistory = <<>>
    /\ firstFrame = Null
    /\ lastFrame = Null
    /\ calls = 0
    /\ assessment = Null
    /\ InitSession
    /\ InitComponents
    /\ InitUi

\* getExpectedStateAtTick(tick) of the tracker and the expectedNotes of
\* assessPerformance for the same score
ProbeTimeline ==
    /\ \E tick \in 0..MaxProbeTick :
          lastCall' = Some([tick |-> tick,
                            expected |-> getExpectedStateAtTick(tick),
                            windows |-> ExpectedNotes(score)])
    /\ UNCHANGED <<quantizer, fresh, detector, calls>>
    /\ UNCHANGED trackerSide

NextTimeline == ProbeTimeline

SpecTimeline == InitTimeline /\ [][NextTimeline]_vars

(***************************************************************************)
(* The calibration workflow of CalibrationModal: audio frames, renders     *)
(* with their effects, the delayed step transitions and the buttons.       *)
(* Time advances with the audio frames; a timer is [target, left] with     *)
(* left in frames.  timers is in scheduling order: the delays are equal,   *)
(* so the transitions fire in the order they were scheduled.  A pending    *)
(* render happens before time advances.  The count-in of the latency test  *)
(* is followed here only to its completion timeout.                        *)
(***************************************************************************)
FrameRmsLevels == {0, 30, 100}

InitCalibration ==
    /\ IdleTracker
    /\ driver = "calibration"
    /\ InitComponents
    /\ InitUi

\* an audio frame arrives 100 ms after the last one: the currentRMS prop
AudioFrame ==
    /\ modal.step \in {"volume-soft", "volume-loud", "latency-intro", "latency-test"}
    /\ modal.seen = Rendered(modal)
    /\ \A i \in DOMAIN timers : timers[i].left > 0
    /\ \E rms \in FrameRmsLevels : modal' = [modal EXCEPT !.currentRMS = rms]
    /\ timers' = [i \in DOMAIN timers |-> [timers[i] EXCEPT !.left = @ - 1]]
    /\ UNCHANGED <<trackerIdle, calls, componentVars, metronome>>

\* a render and the effects whose dependencies changed since the last one
Render ==
    /\ modal.seen # Rendered(modal)
    /\ LET r == Rendered(modal)
           softRuns == <<r.step, r.currentRMS, r.softSamples>> #
                       <<modal.seen.step, modal.seen.currentRMS, modal.seen.softSamples>>
           loudRuns == <<r.step, r.currentRMS, r.loudSamples>> #
                       <<modal.seen.step, modal.seen.currentRMS, modal.seen.loudSamples>>
           soft == SoftVolumeEffect(r)
           loud == LoudVolumeEffect(r)
       IN /\ modal' = [modal EXCEPT
                 !.seen = r,
                 !.softSamples = IF softRuns /\ soft.push THEN @ + 1 ELSE @,
                 !.loudSamples = IF loudRuns /\ loud.push THEN @ + 1 ELSE @]
          /\ timers' = timers
                \o (IF softRuns /\ soft.schedules
                    THEN <<[target |-> "volume-loud", left |-> DelayFrames]>> ELSE <<>>)
                \o (IF loudRuns /\ loud.schedules
                    THEN <<[target |-> "latency-intro", left |-> DelayFrames]>> ELSE <<>>)
    /\ UNCHANGED <<trackerIdle, calls, componentVars, metronome>>

\* a delayed step transition is due: setStep(target)
TimerFires ==
    /\ timers # <<>>
    /\ Head(timers).left = 0
    /\ timers' = Tail(timers)
    /\ modal' = [modal EXCEPT !.step = Head(timers).target]
    /\ UNCHANGED <<trackerIdle, calls, componentVars, metronome>>

\* the button of the intro step
ClickBegin ==
    /\ modal.seen.step = "intro"
    /\ modal' = [modal EXCEPT !.step = "volume-soft"]
    /\ UNCHANGED <<trackerIdle, calls, componentVars, timers, metronome>>

\* the button of the latency-intro step: startLatencyTest
ClickStartLatencyTest ==
    /\ modal.seen.step = "latency-intro"
    /\ modal' = [modal EXCEPT !.step = "latency-test",
                              !.isMetronomePlaying = TRUE,
                              !.taps = 0]
    /\ metronome' = MetronomeStart(NewMetronome, COUNT_IN_BEATS)
    /\ UNCHANGED <<trackerIdle, calls, componentVars, timers>>

\* calculateLatency ends on setStep("complete") on either path
calculateLatency(m) == [m EXCEPT !.step = "complete"]

\* the completion timeout of the count-in, 8050 ms after its start and so
\* after every 500 ms transition scheduled before it:
\* setIsMetronomePlaying(false); calculateLatency()
CountInEnds ==
    /\ metronome.definiteTimeout = "pending"
    /\ modal.seen = Rendered(modal)
    /\ timers = <<>>
    /\ metronome' = MetronomeTimeout(metronome)
    /\ modal' = calculateLatency([modal EXCEPT !.isMetronomePlaying = FALSE])
    /\ UNCHANGED <<trackerIdle, calls, componentVars, timers>>

NextCalibration ==
    \/ AudioFrame
    \/ Render
    \/ TimerFires
    \/ ClickBegin
    \/ ClickStartLatencyTest
    \/ CountInEnds

SpecCalibration == InitCalibration /\ [][NextCalibration]_vars

(***************************************************************************)
(* The count-in of the latency test: Metronome.start, the animation-frame  *)
(* beat loop, the completion timeout and the taps that end in              *)
(* stop(calculateLatency).  The start state is the modal at latency-intro, *)
(* both volume steps done.                                                 *)
(***************************************************************************)
MaxTaps == 10

AtLatencyIntro ==
    LET m == [NewModal EXCEPT !.step = "latency-intro",
                              !.softSamples = SAMPLES_NEEDED,
                              !.loudSamples = SAMPLES_NEEDED]
    IN [m EXCEPT !.seen = Rendered(m)]

InitCountIn ==
    /\ IdleTracker
    /\ driver = "count-in"
    /\ InitComponents
    /\ modal = AtLatencyIntro
    /\ timers = <<>>
    /\ metronome = NewMetronome

\* an animation frame of the beat loop: updateBeat
UpdateBeat ==
    /\ metronome.rafPending
    /\ \E due \in BOOLEAN : metronome' = MetronomeUpdateBeat(metronome, due)
    /\ UNCHANGED <<trackerIdle, calls, componentVars, modal, timers>>

\* handleTap of the last render, from the tap button or the space key
Tap ==
    /\ modal.seen.step = "latency-test"
    /\ modal.seen.isMetronomePlaying
    /\ modal.taps < MaxTaps
    /\ IF modal.taps + 1 >= TAPS_NEEDED
       THEN /\ modal' = calculateLatency([modal EXCEPT !.taps = @ + 1,
                                                       !.isMetronomePlaying = FALSE])
            /\ metronome' = MetronomeStop(metronome, TRUE)
       ELSE /\ modal' = [modal EXCEPT !.taps = @ + 1]
            /\ UNCHANGED metronome
    /\ UNCHANGED <<trackerIdle, calls, componentVars, timers>>

NextCountIn ==
    \/ ClickStartLatencyTest
    \/ Render
    \/ UpdateBeat
    \/ Tap
    \/ CountInEnds

SpecCountIn == InitCountIn /\ [][NextCountIn]_vars

(***************************************************************************)
(* Vocabulary of the properties                                            *)
(***************************************************************************)
Assessed == ~IsNull(assessment)
Result == Val(assessment)

\* a log entry with a pitch present and rms > 0.02
IsSound(e) == ~IsNull(e.actualPitch) /\ e.actualRMS > 20

SoundEntries == {i \in DOMAIN stateHistory : IsSound(stateHistory[i])}
HasSound == SoundEntries # {}
FirstSoundEntry == CHOOSE i \in SoundEntries : \A j \in SoundEntries : i <= j

\* Stage-1-adjusted tick of a log entry
AdjustedTickOf(e) == e.rawTick - calibratedLatencyTicks

\* the score event that covers a tick, stated from the events' start ticks
EventStart(events, k) == SumTicks(SubSeq(events, 1, k - 1))
EventsAt(tick) ==
    LET events == Flatten(score)
    IN {k \in DOMAIN events :
          /\ EventStart(events, k) <= tick
          /\ tick < EventStart(events, k) + durToTicks(events[k].dur)}

(***************************************************************************)
(* C1  Perfect performance, zero calibrated latency: every noteResults     *)
(*     entry of the assessment has passed = true.                          *)
(***************************************************************************)
C1_PerfectAllNotesPass ==
    (Assessed /\ calibratedLatencyMs = 0)
        => \A i \in DOMAIN Result.noteResults : Result.noteResults[i].passed

(***************************************************************************)
(* C2  Perfect performance, zero calibrated latency, whatever the spectral *)
(*     readings: overallScore is about 100 (here: at least 95.00).         *)
(***************************************************************************)
C2_PerfectScoresFull ==
    (Assessed /\ calibratedLatencyMs = 0) => Result.overallScore >= 9500

(***************************************************************************)
(* C3  Perfect performance delayed by exactly the calibrated latency of L  *)
(*     whole ticks, L > 0: overallScore is about 100 (at least 95.00).     *)
(***************************************************************************)
C3_DelayedScoresFull ==
    (Assessed /\ calibratedLatencyMs > 0
        /\ calibratedLatencyMs = calibratedLatencyTicks * msPerTick(tempo))
        => Result.overallScore >= 9500

(***************************************************************************)
(* C4  Snap window.  Let a be the Stage-1-adjusted tick of the first log   *)
(*     entry with a pitch present and rms > 0.02.  If 0 <= a <= 30, that   *)
(*     entry and every later one has tick = (rawTick - latencyTicks) - a;  *)
(*     otherwise every entry has tick = rawTick - latencyTicks.            *)
(***************************************************************************)
C4_SnapWindow ==
    HasSound =>
        LET f == FirstSoundEntry
            a == AdjustedTickOf(stateHistory[f])
        IN IF 0 <= a /\ a <= 30
           THEN \A j \in DOMAIN stateHistory :
                    j >= f => stateHistory[j].tick = AdjustedTickOf(stateHistory[j]) - a
           ELSE \A j \in DOMAIN stateHistory :
                    stateHistory[j].tick = AdjustedTickOf(stateHistory[j])

\* a first sound inside the window, at a tick above 0, followed by a later entry
C4_Witness ==
    /\ HasSound
    /\ AdjustedTickOf(stateHistory[FirstSoundEntry]) \in 1..30
    /\ Len(stateHistory) > FirstSoundEntry

(***************************************************************************)
(* C5  Per-tick classification.  Every log entry has isCorrect = true      *)
(*     exactly when the score's event at its corrected tick is a note and  *)
(*     an actual pitch within 1 semitone of the expected MIDI pitch is     *)
(*     present, or it is a rest and there is no pitch or rms < 0.015, or   *)
(*     no event covers the tick.                                           *)
(***************************************************************************)
C5_Classification ==
    \A i \in DOMAIN stateHistory :
        LET e == stateHistory[i]
            events == Flatten(score)
            at == EventsAt(e.tick)
        IN e.isCorrect <=>
              \/ \E k \in at :
                    /\ events[k].kind = "note"
                    /\ ~IsNull(e.actualPitch)
                    /\ Abs(Val(e.actualPitch) - pitchToMidi(events[k].pitch)) <= 1
              \/ \E k \in at :
                    /\ events[k].kind = "rest"
                    /\ (IsNull(e.actualPitch) \/ e.actualRMS < 15)
              \/ at = {}

\* an expected note judged correct on a pitch one semitone off
C5_Witness ==
    \E i \in DOMAIN stateHistory :
        LET e == stateHistory[i]
        IN /\ e.expectedKind = "note"
           /\ e.isCorrect
           /\ ~IsNull(e.actualPitch)
           /\ e.actualPitch # e.expectedPitch

(***************************************************************************)
(* C6  Rest boundary, as claimed: during an expected rest a frame with no  *)
(*     pitch and rms = 0.02 is logged with isCorrect = false.              *)
(***************************************************************************)
C6_RestBoundaryAsClaimed ==
    \A i \in DOMAIN stateHistory :
        LET e == stateHistory[i]
        IN (e.expectedKind = "rest" /\ IsNull(e.actualPitch) /\ e.actualRMS = 20)
              => ~e.isCorrect

(***************************************************************************)
(* C6  Rest boundary, amended: during an expected rest a frame with        *)
(*     rms = 0.02 is logged with isCorrect = true when it has no pitch and *)
(*     with isCorrect = false when a pitch is present.                     *)
(***************************************************************************)
C6_RestBoundary ==
    \A i \in DOMAIN stateHistory :
        LET e == stateHistory[i]
        IN (e.expectedKind = "rest" /\ e.actualRMS = 20)
              => (e.isCorrect <=> IsNull(e.actualPitch))

\* a rest tick logged from a frame with no pitch and rms = 0.02
C6_Witness ==
    \E i \in DOMAIN stateHistory :
        LET e == stateHistory[i]
        IN e.expectedKind = "rest" /\ IsNull(e.actualPitch) /\ e.actualRMS = 20

(***************************************************************************)
(* C7  No two log entries have the same corrected tick.                    *)
(***************************************************************************)
C7_UniqueCorrectedTicks ==
    \A i, j \in DOMAIN stateHistory :
        i < j => stateHistory[i].tick # stateHistory[j].tick

(***************************************************************************)
(* C8  Coalescing, as claimed: the log entry of a raw tick carries the     *)
(*     pitch and rms of the last update() frame that fell within it.       *)
(***************************************************************************)
C8_LastFrameWins ==
    (stateHistory # <<>> /\ ~IsNull(lastFrame)
        /\ stateHistory[Len(stateHistory)].rawTick = Val(lastFrame).tick)
        => /\ stateHistory[Len(stateHistory)].actualPitch = Val(lastFrame).pitch
           /\ stateHistory[Len(stateHistory)].actualRMS = Val(lastFrame).rms

(***************************************************************************)
(* C8  Coalescing, amended: when several update() frames fall within the   *)
(*     same raw tick, the log holds one entry for that tick and it carries *)
(*     the pitch and rms of the first of these frames.                     *)
(***************************************************************************)
C8_FirstFrameWins ==
    (stateHistory # <<>> /\ ~IsNull(firstFrame)
        /\ stateHistory[Len(stateHistory)].rawTick = Val(firstFrame).tick)
        => /\ stateHistory[Len(stateHistory)].actualPitch = Val(firstFrame).pitch
           /\ stateHistory[Len(stateHistory)].actualRMS = Val(firstFrame).rms
           /\ Cardinality({i \in DOMAIN stateHistory :
                  stateHistory[i].rawTick = Val(firstFrame).tick}) = 1

\* two different frames fell within the raw tick of the last log entry
C8_Witness ==
    /\ stateHistory # <<>>
    /\ ~IsNull(firstFrame)
    /\ lastFrame # firstFrame
    /\ stateHistory[Len(stateHistory)].rawTick = Val(lastFrame).tick

(***************************************************************************)
(* C9  The raw tick follows the (non-decreasing) elapsed time, and the     *)
(*     rawTick values of successive log entries are strictly increasing.   *)
(***************************************************************************)
C9_RawTicksIncrease ==
    /\ currentTick = NewTick(elapsedMs)
    /\ \A i, j \in DOMAIN stateHistory :
          i < j => stateHistory[i].rawTick < stateHistory[j].rawTick
    /\ \A i \in DOMAIN stateHistory : stateHistory[i].rawTick <= currentTick

\* two entries logged, and a further frame dropped within the last entry's tick
C9_Witness ==
    /\ Len(stateHistory) >= 2
    /\ ~IsNull(lastFrame)
    /\ lastFrame # firstFrame
    /\ Val(lastFrame).tick = stateHistory[Len(stateHistory)].rawTick

(***************************************************************************)
(* C10 The Stage-2 offset is computed once: it is null exactly while the   *)
(*     log holds no entry with a pitch present and rms > 0.02, the entry   *)
(*     that sets it is the first such entry, and once set no step changes  *)
(*     it except start(), which clears it.                                 *)
(***************************************************************************)
C10_OffsetOnce ==
    /\ [](IsNull(firstNoteOffsetTicks) <=> ~HasSound)
    /\ [][ /\ (IsNull(firstNoteOffsetTicks) /\ ~IsNull(firstNoteOffsetTicks'))
               => /\ Len(stateHistory') = Len(stateHistory) + 1
                  /\ SoundEntries' = {Len(stateHistory')}
                  /\ Val(firstNoteOffsetTicks') \in
                        {0, stateHistory'[Len(stateHistory')].rawTick
                                - calibratedLatencyTicks}
           /\ (~IsNull(firstNoteOffsetTicks)
                 /\ firstNoteOffsetTicks' # firstNoteOffsetTicks)
               => /\ IsNull(firstNoteOffsetTicks')
                  /\ stateHistory' = <<>>
                  /\ currentTick' = 0
                  /\ elapsedMs' = 0 ]_vars

\* an offset frozen inside the window and a later, second sounding entry
C10_Witness ==
    /\ ~IsNull(firstNoteOffsetTicks)
    /\ Val(firstNoteOffsetTicks) > 0
    /\ Cardinality(SoundEntries) >= 2

(***************************************************************************)
(* Vocabulary of the assessment properties                                 *)
(***************************************************************************)
\* the expected-note windows of the session's score
Windows == ExpectedNotes(score)

\* log entry e carries the pitch of the window at rms > 0.02
Matches(e, window) ==
    e.actualPitch = Some(window.pitch) /\ e.actualRMS > 20

\* log entries whose corrected tick lies in the strict window [start, end)
WindowEntries(window) ==
    {j \in DOMAIN stateHistory :
        /\ stateHistory[j].tick >= window.startTick
        /\ stateHistory[j].tick < window.endTick}

WindowHits(window) == {j \in WindowEntries(window) : Matches(stateHistory[j], window)}

\* matching log entries within [start - 48, end + 48)
SlackHits(window) ==
    {j \in DOMAIN stateHistory :
        /\ stateHistory[j].tick >= window.startTick - 48
        /\ stateHistory[j].tick < window.endTick + 48
        /\ Matches(stateHistory[j], window)}

\* the offsets that enter the timing statistics
TimingSamples == NoteTransitions(stateHistory, Windows)

\* the events of the session's score and those that open a window
Events == Flatten(score)
Openers == {k \in DOMAIN Events : Events[k].kind = "note" /\ ~Events[k].tiedFrom}

\* the tied-from notes that follow opener k before the next opener
TiedInto(k) ==
    {m \in DOMAIN Events :
        /\ m > k
        /\ Events[m].kind = "note"
        /\ Events[m].tiedFrom
        /\ \A o \in Openers : ~(k < o /\ o < m)}

\* end tick of the last note tied into opener k (its own end without ties)
WindowEnd(k) ==
    LET last == CHOOSE m \in TiedInto(k) \cup {k} :
                    \A m2 \in TiedInto(k) \cup {k} : m2 <= m
    IN EventStart(Events, last) + durToTicks(Events[last].dur)

(***************************************************************************)
(* C11 Per-note pass rule.  The noteResults entry of an expected window    *)
(*     has passed = true exactly when the log holds entries in the strict  *)
(*     window [start, end) and at least half of them carry the expected    *)
(*     pitch at rms > 0.02; a window with no such entry never passes.      *)
(***************************************************************************)
C11_PassRule ==
    (Assessed /\ stateHistory # <<>>) =>
        LET w == Windows
            entries == [i \in DOMAIN w |-> Cardinality(WindowEntries(w[i]))]
            hits == [i \in DOMAIN w |-> Cardinality(WindowHits(w[i]))]
        IN /\ Len(Result.noteResults) = Len(w)
           /\ \A i \in DOMAIN w :
                 /\ Result.noteResults[i].passed <=>
                       (entries[i] > 0 /\ 2 * hits[i] >= entries[i])
                 /\ hits[i] = 0 => ~Result.noteResults[i].passed

\* one window passes on exactly half of its entries, another holds entries
\* and no correct one
C11_Witness ==
    /\ Assessed
    /\ LET w == Windows
       IN /\ \E i \in DOMAIN w :
                /\ Cardinality(WindowEntries(w[i])) = 2
                /\ Cardinality(WindowHits(w[i])) = 1
                /\ Result.noteResults[i].passed
          /\ \E i \in DOMAIN w :
                /\ WindowEntries(w[i]) # {}
                /\ WindowHits(w[i]) = {}
                /\ ~Result.noteResults[i].passed

(***************************************************************************)
(* C12 Missed notes, as claimed: a note with no pitch-correct entry in its *)
(*     strict window fails and adds no offset, so the timing statistics    *)
(*     hold one sample per note with a pitch-correct entry in its strict   *)
(*     window.                                                             *)
(***************************************************************************)
C12_MissedNoSampleAsClaimed ==
    (Assessed /\ stateHistory # <<>>) =>
        LET w == Windows
            hits == [i \in DOMAIN w |-> WindowHits(w[i])]
        IN /\ \A i \in DOMAIN w : hits[i] = {} => ~Result.noteResults[i].passed
           /\ Len(TimingSamples) = Cardinality({i \in DOMAIN w : hits[i] # {}})

(***************************************************************************)
(* C12 Missed notes, amended: a note with no pitch-correct entry in its    *)
(*     strict window fails; it adds no offset only when no entry within    *)
(*     [start - 48, end + 48) carries its pitch at rms > 0.02.  Otherwise  *)
(*     the first such entry of the log is its onset, and the timing        *)
(*     statistics hold (onset tick - start tick) for these notes, in score *)
(*     order.                                                              *)
(***************************************************************************)
C12_MissedNoSample ==
    (Assessed /\ stateHistory # <<>>) =>
        LET w == Windows
            samples == TimingSamples
            hits == [i \in DOMAIN w |-> WindowHits(w[i])]
            heard == [i \in DOMAIN w |-> SlackHits(w[i])]
            detected == {i \in DOMAIN w : heard[i] # {}}
            nth == [k \in 1..Cardinality(detected) |->
                       CHOOSE i \in detected : Cardinality({m \in detected : m <= i}) = k]
            onset == [i \in detected |->
                         CHOOSE j \in heard[i] : \A j2 \in heard[i] : j <= j2]
        IN /\ \A i \in DOMAIN w : hits[i] = {} => ~Result.noteResults[i].passed
           /\ Len(samples) = Cardinality(detected)
           /\ \A k \in DOMAIN samples :
                 samples[k] = stateHistory[onset[nth[k]]].tick - w[nth[k]].startTick

\* one note is heard only in the slack around its window, another not at all
C12_Witness ==
    /\ Assessed
    /\ LET w == Windows
       IN /\ \E i \in DOMAIN w : WindowHits(w[i]) = {} /\ SlackHits(w[i]) # {}
          /\ \E i \in DOMAIN w : SlackHits(w[i]) = {}

(***************************************************************************)
(* C13 Expected windows.  For a non-empty log, noteResults has one entry   *)
(*     per score note without tiedFrom, in score order, keyed by the       *)
(*     note's accumulated start tick; the window of such a note starts     *)
(*     there and ends where the last note tied into it ends.               *)
(***************************************************************************)
C13_WindowsPerNote ==
    (Assessed /\ stateHistory # <<>>) =>
        LET w == ExpectedNotes(score)
            events == Events
            openers == Openers
            nth == [i \in 1..Cardinality(openers) |->
                       CHOOSE k \in openers : Cardinality({m \in openers : m <= k}) = i]
        IN /\ Len(Result.noteResults) = Cardinality(openers)
           /\ Len(w) = Cardinality(openers)
           /\ \A i \in 1..Cardinality(openers) :
                 /\ Result.noteResults[i].tick = EventStart(events, nth[i])
                 /\ w[i].startTick = EventStart(events, nth[i])
                 /\ w[i].endTick = WindowEnd(nth[i])
                 /\ w[i].pitch = pitchToMidi(events[nth[i]].pitch)

\* a score with a tie assessed, an entry logged inside the tied-over part
C13_Witness ==
    /\ Assessed
    /\ \E k \in Openers :
          /\ TiedInto(k) # {}
          /\ \E j \in DOMAIN stateHistory :
                /\ stateHistory[j].tick >= EventStart(Events, k) + durToTicks(Events[k].dur)
                /\ stateHistory[j].tick < WindowEnd(k)

(***************************************************************************)
(* C14 Timing tendency.  With avgOffset the mean of the timing samples,    *)
(*     the tendency is "rushing" when avgOffset < -3, "dragging" when      *)
(*     avgOffset > 3 and "on-time" otherwise, also without any sample; the *)
(*     reported avgOffset is that mean up to its rounding.  Samples        *)
(*     [5, 4, 6] give "dragging", samples [1, -1, 1, -1] give "on-time".   *)
(***************************************************************************)
C14_Tendency ==
    (Assessed /\ stateHistory # <<>>) =>
        LET samples == TimingSamples
            n == Len(samples)
            sum == SeqSum(samples)
            avg == Result.timing.avgOffset
        IN /\ Result.timing.tendency =
                 IF n = 0 THEN "on-time"
                 ELSE IF sum < -3 * n THEN "rushing"
                 ELSE IF sum > 3 * n THEN "dragging"
                 ELSE "on-time"
           /\ IF n = 0 THEN avg.num = 0
              ELSE 20 * Abs(avg.num * n - sum * avg.den) <= avg.den * n
           /\ samples = <<5, 4, 6>> => Result.timing.tendency = "dragging"
           /\ samples = <<1, -1, 1, -1>> => Result.timing.tendency = "on-time"

\* the samples [5, 4, 6] assessed
C14_Witness ==
    /\ Assessed
    /\ TimingSamples = <<5, 4, 6>>
    /\ Result.timing.tendency = "dragging"

(***************************************************************************)
(* C15 Inconsistent timing.  When |avgOffset| <= 3 and the standard        *)
(*     deviation of the samples is > 5, the description is the             *)
(*     inconsistent one biased toward rushing when the rushing notes       *)
(*     (offset < -3) are at least 1.5 times the dragging notes             *)
(*     (offset > 3), toward dragging in the symmetric case, and the mixed  *)
(*     one otherwise.                                                      *)
(***************************************************************************)
C15_InconsistentBias ==
    (Assessed /\ stateHistory # <<>>) =>
        LET samples == TimingSamples
            n == Len(samples)
            sum == SeqSum(samples)
            rushing == Cardinality({k \in DOMAIN samples : samples[k] < -3})
            dragging == Cardinality({k \in DOMAIN samples : samples[k] > 3})
        IN (n > 0 /\ Abs(sum) <= 3 * n
               /\ n * SeqSumSquares(samples) - sum * sum > 25 * n * n)
           => Result.timing.description =
                 IF 2 * rushing >= 3 * dragging THEN "inconsistent-rushing"
                 ELSE IF 2 * dragging >= 3 * rushing THEN "inconsistent-dragging"
                 ELSE "inconsistent-mixed"

(***************************************************************************)
(* C16 For a non-empty log the reported rhythmAccuracy is the share of     *)
(*     entries with isCorrect = true, as a percentage rounded to 2         *)
(*     decimals.                                                           *)
(***************************************************************************)
C16_RhythmAccuracy ==
    (Assessed /\ stateHistory # <<>>) =>
        Result.rhythmAccuracy =
            RoundDiv(Cardinality({j \in DOMAIN stateHistory : stateHistory[j].isCorrect})
                        * 10000,
                     Len(stateHistory))

(***************************************************************************)
(* C17 For a log with an expected-note tick the reported pitchAccuracy is  *)
(*     the share of expected-note entries with isCorrect = true, times the *)
(*     multiplier 1.0, 1.025, 1.05, 1.075, 1.1 of difficulty 1..5, as a    *)
(*     percentage rounded to 2 decimals.                                   *)
(***************************************************************************)
C17_PitchAccuracy ==
    LET noteTicks == {j \in DOMAIN stateHistory : stateHistory[j].expectedKind = "note"}
        correctNoteTicks == {j \in noteTicks : stateHistory[j].isCorrect}
        multiplier == <<1000, 1025, 1050, 1075, 1100>>[difficulty]
    IN (Assessed /\ noteTicks # {}) =>
          Result.pitchAccuracy =
              RoundDiv(Cardinality(correctNoteTicks) * multiplier * 10,
                       Cardinality(noteTicks))

(***************************************************************************)
(* C18 overallScore is min(100, 0.5 pitchAccuracy + 0.3 rhythmAccuracy +   *)
(*     0.2 toneQuality) of the reported percentages, up to their rounding, *)
(*     and lies in [0, 100] also when pitchAccuracy and toneQuality exceed *)
(*     100.                                                                *)
(***************************************************************************)
C18_OverallScore ==
    Assessed =>
        /\ Result.overallScore >= 0
        /\ Result.overallScore <= 10000
        /\ Abs(10 * Result.overallScore
               - Min(100000, 5 * Result.pitchAccuracy + 3 * Result.rhythmAccuracy
                                + 2 * Result.toneQuality)) <= 10

\* pitch accuracy and tone quality above 100, the overall score held at 100
C18_Witness ==
    /\ Assessed
    /\ Result.pitchAccuracy > 10000
    /\ Result.toneQuality > 10000
    /\ Result.overallScore = 10000

(***************************************************************************)
(* C19 The assessment of an empty log is the neutral result: the four      *)
(*     scores 0, tendency "on-time", avgOffset 0, noteResults empty.       *)
(***************************************************************************)
C19_EmptyLogNeutral ==
    (Assessed /\ stateHistory = <<>>) =>
        /\ Result.overallScore = 0
        /\ Result.pitchAccuracy = 0
        /\ Result.rhythmAccuracy = 0
        /\ Result.toneQuality = 0
        /\ Result.timing.tendency = "on-time"
        /\ Result.timing.avgOffset.num = 0
        /\ Result.noteResults = <<>>

\* an empty log assessed, against a score that has notes
C19_Witness ==
    /\ Assessed
    /\ stateHistory = <<>>
    /\ Len(Windows) > 0

(***************************************************************************)
(* C20 update() before start() changes nothing: while start() has not been *)
(*     called the log is empty, the current tick is 0 and no Stage 2       *)
(*     offset or first-sound tick is set, whatever frames were handed in.  *)
(***************************************************************************)
C20_UpdateBeforeStart ==
    ~hasStarted =>
        /\ stateHistory = <<>>
        /\ currentTick = 0
        /\ elapsedMs = 0
        /\ IsNull(firstNoteOffsetTicks)
        /\ IsNull(firstSoundDetectedTick)

\* several calls made before start(), the last update() one a sounding frame
C20_Witness ==
    /\ ~hasStarted
    /\ calls >= 2
    /\ ~IsNull(lastFrame)
    /\ ~IsNull(Val(lastFrame).pitch)
    /\ Val(lastFrame).rms > 20

(***************************************************************************)
(* C28 Duration snapping.  The snapped duration of a raw duration d is the *)
(*     member of {16, 24, 36, 48, 72, 96, 144} nearest to d, the smaller   *)
(*     one of two equally near members (20 -> 16, 30 -> 24, 60 -> 48);     *)
(*     snapping it again returns it, and 48 -> 48.                         *)
(***************************************************************************)
C28_NearestDuration ==
    ~IsNull(lastCall) =>
        LET d == Val(lastCall).durationTicks
            e == Val(lastCall).expectedDurationTicks
            canonical == {16, 24, 36, 48, 72, 96, 144}
        IN /\ e \in canonical
           /\ \A c \in canonical :
                 /\ Abs(e - d) <= Abs(c - d)
                 /\ Abs(e - d) = Abs(c - d) => e <= c
           /\ roundToNearestDuration(e) = e
           /\ d = 20 => e = 16
           /\ d = 30 => e = 24
           /\ d = 60 => e = 48
           /\ d = 48 => e = 48

\* a raw duration of 60, equally near to 48 and 72, snapped to 48
C28_Witness ==
    /\ ~IsNull(lastCall)
    /\ Val(lastCall).durationTicks = 60
    /\ Val(lastCall).expectedDurationTicks = 48

(***************************************************************************)
(* C30 Articulation priority.  A finished note whose rms is twice the      *)
(*     average rms of the detector's history, with onset sharpness 0.9, is *)
(*     labelled "accent", also when its duration is below half of the      *)
(*     expected one, whatever the length of the history.                   *)
(***************************************************************************)
C30_AccentPriority ==
    ~IsNull(lastCall) =>
        LET call == Val(lastCall)
            n == Len(call.before)
        IN (n > 0 /\ call.rms * n = 2 * SeqSum(call.before) /\ call.onsetSharpness = 90)
              => call.label = "accent"

(***************************************************************************)
(* C27 Canonical durations.  After any sequence of update() calls every    *)
(*     note event of the quantizer has durationTicks in                    *)
(*     {16, 24, 36, 48, 72, 96, 144}.                                      *)
(***************************************************************************)
C27_CanonicalDurations ==
    \A i \in DOMAIN quantizer.events :
        quantizer.events[i].kind = "note"
            => quantizer.events[i].durationTicks \in {16, 24, 36, 48, 72, 96, 144}

(***************************************************************************)
(* C29 reset() clears all state.  From a reset() on, whatever the history  *)
(*     before it (a note pending included), the quantizer and a quantizer  *)
(*     constructed at the reset with the same tempo, given the same        *)
(*     update() calls, have the same events (articulation labels included) *)
(*     and the same current tick.                                          *)
(***************************************************************************)
C29_ResetIsFresh ==
    ~IsNull(fresh) =>
        /\ quantizer.events = Val(fresh).twin.events
        /\ quantizer.currentTick = Val(fresh).twin.currentTick

\* a reset() with a note pending and an event finalized before it, and a note
\* started and finalized after it
C29_Witness ==
    /\ ~IsNull(fresh)
    /\ Val(fresh).pending
    /\ Val(fresh).dropped > 0
    /\ Len(quantizer.events) = 1
    /\ quantizer.currentTick > 0

(***************************************************************************)
(* C21 start() sets the tick counter to 0, empties the log and clears the  *)
(*     per-performance offset, also on a tracker that holds a log and a    *)
(*     frozen offset; afterwards the offset is null until the new log has  *)
(*     a sounding entry and is then computed from the first sounding entry *)
(*     of the new log, whose entries all carry raw ticks of the new        *)
(*     performance.                                                        *)
(***************************************************************************)
C21_StartResets ==
    [][ /\ ((~hasStarted /\ hasStarted') \/ earlier' # earlier)
            => /\ currentTick' = 0
               /\ stateHistory' = <<>>
               /\ firstNoteOffsetTicks' = Null
               /\ (hasStarted => /\ Val(earlier').log = stateHistory
                                 /\ Val(earlier').offset = firstNoteOffsetTicks)
        /\ IF SoundEntries' = {}
           THEN firstNoteOffsetTicks' = Null
           ELSE firstNoteOffsetTicks' =
                   Some(SnapOffset(AdjustedTickOf(stateHistory'[FirstSoundEntry'])))
        /\ \A i \in DOMAIN stateHistory' :
              /\ stateHistory'[i].rawTick <= currentTick'
              /\ stateHistory'[i].rawTick >= i
      ]_vars

\* a performance with a log and a frozen offset was discarded, and the new
\* performance froze another offset
C21_Witness ==
    /\ ~IsNull(earlier)
    /\ Val(earlier).log # <<>>
    /\ ~IsNull(Val(earlier).offset)
    /\ ~IsNull(firstNoteOffsetTicks)
    /\ firstNoteOffsetTicks # Val(earlier).offset

(***************************************************************************)
(* C22 After start(), update(pitch, rms) completes for every pitch (null   *)
(*     included), every rms (0 included), at every elapsed time and for    *)
(*     every score (empty ones included), and every entry it logs is a     *)
(*     well-formed TickState.                                              *)
(***************************************************************************)
C22_UpdateNeverThrows ==
    /\ hasStarted =>
          \A gap \in SessionGapsMs, f \in SessionFrames :
              ENABLED UpdateBody(elapsedMs + gap, f.pitch, f.rms)
    /\ \A i \in DOMAIN stateHistory :
          LET e == stateHistory[i]
              midi == {Null} \cup {Some(m) : m \in 0..127}
          IN /\ e.tick \in Int
             /\ e.rawTick \in Nat
             /\ e.expectedKind \in {"note", "rest", "none"}
             /\ e.expectedPitch \in midi
             /\ e.actualPitch \in midi
             /\ e.isCorrect \in BOOLEAN

\* a frame with pitch null and rms 0 was logged while a note was expected
C22_Witness ==
    \E i \in DOMAIN stateHistory :
        /\ stateHistory[i].actualPitch = Null
        /\ stateHistory[i].actualRMS = 0
        /\ stateHistory[i].expectedKind = "note"

(***************************************************************************)
(* C23 With an empty score (no measures, or measures without events) every *)
(*     log entry has expectedKind null and isCorrect true, whatever the    *)
(*     pitch and rms of its frame.                                         *)
(***************************************************************************)
C23_EmptyScoreAlwaysCorrect ==
    Flatten(score) = <<>> =>
        \A i \in DOMAIN stateHistory :
            /\ stateHistory[i].expectedKind = "none"
            /\ stateHistory[i].expectedPitch = Null
            /\ stateHistory[i].isCorrect

\* a score of one measure without events; a sounding frame and a silent one logged
C23_Witness ==
    /\ score = << <<>> >>
    /\ \E i \in DOMAIN stateHistory : IsSound(stateHistory[i])
    /\ \E i \in DOMAIN stateHistory : IsNull(stateHistory[i].actualPitch)

(***************************************************************************)
(* C24 Between two start() calls the log is append-only: a step either     *)
(*     leaves the log as it is, or appends one TickState at its end, which *)
(*     holds the raw tick and the corrected tick, and leaves every earlier *)
(*     entry in place; only start() empties it.                            *)
(***************************************************************************)
C24_AppendOnly ==
    [][ \/ stateHistory' = stateHistory
        \/ /\ hasStarted
           /\ Len(stateHistory') = Len(stateHistory) + 1
           /\ SubSeq(stateHistory', 1, Len(stateHistory)) = stateHistory
           /\ LET e == stateHistory'[Len(stateHistory')]
              IN /\ e.rawTick = currentTick'
                 /\ e.tick = AdjustedTickOf(e)
                       - (IF IsNull(firstNoteOffsetTicks') THEN 0
                          ELSE Val(firstNoteOffsetTicks'))
        \/ /\ stateHistory' = <<>>
           /\ currentTick' = 0
           /\ elapsedMs' = 0
           /\ firstNoteOffsetTicks' = Null
      ]_vars

\* three update() calls of which two appended an entry
C24_Witness ==
    /\ calls = 3
    /\ Len(stateHistory) = 2
    /\ stateHistory[2].rawTick = currentTick
    /\ stateHistory[1].tick # stateHistory[1].rawTick

(***************************************************************************)
(* C25 getStateHistory() returns a copy: appending to or removing from the *)
(*     returned array does not change the tracker's log, and update()      *)
(*     (and start()) after the call do not change the returned array.      *)
(***************************************************************************)
C25_DefensiveCopy ==
    [][stateHistory' = stateHistory \/ returned' = returned]_vars

\* the caller appended to its array, and the tracker logged entries after the call
C25_Witness ==
    /\ ~IsNull(returned)
    /\ Val(returned).array # <<>>
    /\ Val(returned).array[Len(Val(returned).array)] = CallerEntry
    /\ Val(returned).taken > 0
    /\ Len(stateHistory) > Val(returned).taken
    /\ \A i \in DOMAIN stateHistory : stateHistory[i] # CallerEntry

(***************************************************************************)
(* C26 updateSpectral(centroid, hnr) appends nothing and changes no entry; *)
(*     isCorrect and the expected fields of an entry follow from its tick, *)
(*     actual pitch and rms alone; the TickState the next update() logs    *)
(*     carries the centroid and hnr of the most recent updateSpectral()    *)
(*     call (0 and 0 before the first).                                    *)
(***************************************************************************)
C26_SpectralCached ==
    [][ /\ lastReading' # lastReading => stateHistory' = stateHistory
        /\ Len(stateHistory') = Len(stateHistory) + 1 =>
              LET e == stateHistory'[Len(stateHistory')]
                  expectedState == getExpectedStateAtTick(e.tick)
              IN /\ e.centroid = (IF IsNull(lastReading) THEN 0
                                  ELSE Val(lastReading).centroid)
                 /\ e.hnr = (IF IsNull(lastReading) THEN 0 ELSE Val(lastReading).hnr)
                 /\ e.expectedKind = expectedState.kind
                 /\ e.expectedPitch = expectedState.pitch
                 /\ e.isCorrect = Classify(expectedState, e.actualPitch, e.actualRMS)
      ]_vars

\* two updateSpectral() calls with different readings, then an entry logged
\* with the second reading
C26_Witness ==
    /\ ~IsNull(lastReading)
    /\ Val(lastReading).call = 2
    /\ Len(stateHistory) = 1
    /\ stateHistory[1].hnr = Val(lastReading).hnr
    /\ stateHistory[1].centroid # 15
    /\ calls = 3

(***************************************************************************)
(* C31 detectArticulation returns one label, the first that matches in the *)
(*     order accent (rms > 1.5 x rolling average and sharpness > 0.7),     *)
(*     staccato (duration < 50% of expected and sharpness > 0.6), legato   *)
(*     (sharpness < 0.3 and duration >= 90% of expected), normal.  The     *)
(*     rolling average is the mean of the last 10 onset rms values, the    *)
(*     finished note's included.                                           *)
(***************************************************************************)
C31_FirstMatchWins ==
    ~IsNull(lastCall) =>
        LET call == Val(lastCall)
            all == Append(call.before, call.rms)
            window == IF Len(all) > 10 THEN SubSeq(all, Len(all) - 9, Len(all)) ELSE all
            accent == /\ 2 * call.rms * Len(window) > 3 * SeqSum(window)
                      /\ call.onsetSharpness > 70
            staccato == /\ 2 * call.durationTicks < call.expectedDurationTicks
                        /\ call.onsetSharpness > 60
            legato == /\ call.onsetSharpness < 30
                      /\ 10 * call.durationTicks >= 9 * call.expectedDurationTicks
        IN /\ call.label \in {"accent", "staccato", "legato", "normal"}
           /\ call.label = "accent" <=> accent
           /\ call.label = "staccato" <=> (~accent /\ staccato)
           /\ call.label = "legato" <=> (~accent /\ ~staccato /\ legato)
           /\ call.label = "normal" <=> (~accent /\ ~staccato /\ ~legato)

\* a note that meets the accent and the staccato conditions, labelled accent
C31_Witness ==
    /\ ~IsNull(lastCall)
    /\ Val(lastCall).label = "accent"
    /\ 2 * Val(lastCall).durationTicks < Val(lastCall).expectedDurationTicks
    /\ Val(lastCall).before # <<>>

(***************************************************************************)
(* C32 Note life cycle of the quantizer.  On an update() that reaches a    *)
(*     new tick: a pending note opens (startTick = that tick, pitch and    *)
(*     onset rms of the frame) iff the frame sounds (pitch present and     *)
(*     rms > 0.02) and no note is pending; one note event is appended,     *)
(*     with the pending startTick and duration currentTick - startTick,    *)
(*     iff the frame is silent and a note is pending.  Every other         *)
(*     update() leaves the events and the pending note as they are.        *)
(***************************************************************************)
C32_NoteLifeCycle ==
    [][ calls' = calls + 1 =>
          LET f == Val(lastCall')
              newTick == f.elapsedMs \div msPerTick(tempo)
              reached == newTick # quantizer.currentTick
              sound == ~IsNull(f.pitch) /\ f.rms > 20
              pending == ~IsNull(quantizer.noteStartTick)
              samePending == /\ quantizer'.noteStartTick = quantizer.noteStartTick
                             /\ quantizer'.currentPitch = quantizer.currentPitch
                             /\ quantizer'.noteStartRMS = quantizer.noteStartRMS
          IN IF reached /\ sound /\ ~pending
             THEN /\ quantizer'.noteStartTick = Some(newTick)
                  /\ quantizer'.currentPitch = f.pitch
                  /\ quantizer'.noteStartRMS = f.rms
                  /\ quantizer'.events = quantizer.events
             ELSE IF reached /\ ~sound /\ pending
             THEN /\ Len(quantizer'.events) = Len(quantizer.events) + 1
                  /\ SubSeq(quantizer'.events, 1, Len(quantizer.events)) = quantizer.events
                  /\ LET e == quantizer'.events[Len(quantizer'.events)]
                     IN /\ e.kind = "note"
                        /\ e.startTick = Val(quantizer.noteStartTick)
                        /\ e.durationTicks = newTick - Val(quantizer.noteStartTick)
                        /\ e.pitch = Val(quantizer.currentPitch)
                  /\ IsNull(quantizer'.noteStartTick)
             ELSE /\ quantizer'.events = quantizer.events
                  /\ samePending
      ]_vars

\* one note finalized, the next one pending, and a sounding frame of another
\* pitch that left the pending note as it was
C32_Witness ==
    /\ Len(quantizer.events) = 1
    /\ ~IsNull(quantizer.noteStartTick)
    /\ ~IsNull(lastCall)
    /\ Val(lastCall).rms > 20
    /\ Val(lastCall).pitch # quantizer.currentPitch
    /\ quantizer.currentTick > Val(quantizer.noteStartTick)

(***************************************************************************)
(* C37 With non-decreasing elapsed time the finalized note events are      *)
(*     ordered and disjoint: every event has durationTicks >= 1, the       *)
(*     startTicks increase strictly, and an event ends (startTick +        *)
(*     durationTicks) no later than the next event starts.                 *)
(***************************************************************************)
C37_EventsDisjoint ==
    LET events == quantizer.events
    IN /\ \A i \in DOMAIN events : events[i].durationTicks >= 1
       /\ \A i \in DOMAIN events :
             i < Len(events) =>
                /\ events[i].startTick < events[i + 1].startTick
                /\ events[i].startTick + events[i].durationTicks <= events[i + 1].startTick

\* two notes finalized, the second one longer than a tick
C37_Witness ==
    /\ Len(quantizer.events) = 2
    /\ quantizer.events[2].durationTicks > 1
    /\ quantizer.events[1].pitch # quantizer.events[2].pitch

(***************************************************************************)
(* C38 With a positive calibrated latency, every entry logged at a         *)
(*     negative corrected tick has expectedKind null and isCorrect true,   *)
(*     whatever was played, and a first sound at a negative adjusted tick  *)
(*     freezes the per-performance offset at 0.                            *)
(***************************************************************************)
C38_BeforeScoreStart ==
    calibratedLatencyMs > 0 =>
        /\ \A i \in DOMAIN stateHistory :
              stateHistory[i].tick < 0 =>
                 /\ stateHistory[i].expectedKind = "none"
                 /\ stateHistory[i].expectedPitch = Null
                 /\ stateHistory[i].isCorrect
        /\ (HasSound /\ AdjustedTickOf(stateHistory[FirstSoundEntry]) < 0)
              => firstNoteOffsetTicks = Some(0)

\* a sound logged before the compensated start of the score, and an entry
\* logged after it
C38_Witness ==
    /\ calibratedLatencyMs > 0
    /\ HasSound
    /\ stateHistory[FirstSoundEntry].tick < 0
    /\ firstNoteOffsetTicks = Some(0)
    /\ stateHistory[Len(stateHistory)].tick > 0

(***************************************************************************)
(* C33 The baseline centroid and HNR do not influence the assessment: two  *)
(*     calls of assessPerformance that differ only in the baselines return *)
(*     the same result.                                                    *)
(***************************************************************************)
C33_BaselineIgnored ==
    Assessed =>
        LET result == [b \in Baselines |->
                          assessPerformanceCall(stateHistory, b.centroid, b.hnr,
                                                score, difficulty)]
        IN \A b1, b2 \in Baselines :
              /\ result[b1] = result[b2]
              /\ result[b1] = Result

\* an assessment with a tone-quality score from spectral readings
C33_Witness ==
    /\ Assessed
    /\ Result.toneQuality > 0
    /\ Result.details.noteTicks > 0
    /\ stateHistory[Len(stateHistory)].hnr > 0

(***************************************************************************)
(* C35 The per-note summary is consistent: for a non-empty log,            *)
(*     details.correct is the number of noteResults entries with passed =  *)
(*     true, details.total is the length of noteResults, and               *)
(*     0 <= details.correct <= details.total.                              *)
(***************************************************************************)
C35_SummaryConsistent ==
    (Assessed /\ stateHistory # <<>>) =>
        LET results == Result.noteResults
        IN /\ Result.details.correct
                 = Cardinality({i \in DOMAIN results : results[i].passed})
           /\ Result.details.total = Len(results)
           /\ 0 <= Result.details.correct
           /\ Result.details.correct <= Result.details.total

\* an assessment with passed and failed notes, one of the failed ones with a
\* detected onset
C35_Witness ==
    /\ Assessed
    /\ Result.details.correct > 0
    /\ Result.details.correct < Result.details.total
    /\ Len(TimingSamples) > Result.details.correct

(***************************************************************************)
(* C34 For a perfect performance at zero latency every detected-onset      *)
(*     offset is within 1 tick of 0 and timing.tendency is "on-time", for  *)
(*     every score, scores with consecutive notes of one pitch included.   *)
(***************************************************************************)
C34_PerfectOnTime ==
    (Assessed /\ calibratedLatencyMs = 0) =>
        LET samples == TimingSamples
        IN /\ \A i \in DOMAIN samples : Abs(samples[i]) <= 1
           /\ Result.timing.tendency = "on-time"

(***************************************************************************)
(* C36 The tracker and the assessment agree on the timeline: at every tick *)
(*     t >= 0 the tracker expects a note of MIDI pitch p exactly when t    *)
(*     lies in an expected-note window of the assessment, and then that    *)
(*     window has pitch p; a tied-from note lies in the window it extends. *)
(***************************************************************************)
C36_TimelinesAgree ==
    ~IsNull(lastCall) =>
        LET probe == Val(lastCall)
            covering == {i \in DOMAIN probe.windows :
                            /\ probe.windows[i].startTick <= probe.tick
                            /\ probe.tick < probe.windows[i].endTick}
        IN /\ probe.expected.kind = "note" <=> covering # {}
           /\ Cardinality(covering) <= 1
           /\ \A i \in covering : probe.expected.pitch = Some(probe.windows[i].pitch)

\* a tick inside the tied-from eighth of the tied score, covered by the
\* window of the quarter it is tied from
C36_Witness ==
    /\ ~IsNull(lastCall)
    /\ score = ScoreTied
    /\ Val(lastCall).tick = 100
    /\ Val(lastCall).expected.kind = "note"
    /\ \E i \in DOMAIN Val(lastCall).windows :
          /\ Val(lastCall).windows[i].startTick = 48
          /\ Val(lastCall).windows[i].endTick = 120

(***************************************************************************)
(* C39 The calibration workflow only moves forward: no step of audio       *)
(*     frames, renders, delayed transitions or clicks takes the modal to   *)
(*     an earlier step of intro, volume-soft, volume-loud, latency-intro,  *)
(*     latency-test, complete.                                             *)
(***************************************************************************)
C39_StepOnlyForward ==
    [][StepRank(modal'.step) >= StepRank(modal.step)]_vars

(***************************************************************************)
(* C40 For each Metronome.start the completion callback runs at most once, *)
(*     and after stop() no further onBeat or onComplete of that count-in   *)
(*     is delivered.                                                       *)
(***************************************************************************)
C40_CompleteOnce ==
    /\ metronome.completions <= 1
    /\ metronome.late = 0

====
